---- MODULE Spec2Model ----
(***************************************************************************)
(* The session / token / request engine of the hilink client.              *)
(*                                                                         *)
(* Two revisions of the engine live in the repository and both are         *)
(* modelled; the variable rev says which one a behaviour runs:             *)
(*   "eager"  src/hilink.go          NewClient performs the handshake      *)
(*   "lazy"   src/unnamed/part_000   doReq calls start() on every invoke   *)
(*                                                                         *)
(* Go strings are sequences of chunks (TLA+ strings used as atoms), so     *)
(* that prefix stripping and concatenation are computed, not assumed.      *)
(* Every goroutine is a stack of frames, one frame per active Go call.     *)
(***************************************************************************)
EXTENDS Integers, Sequences, FiniteSets, TLC

VARIABLES
    rev,        \* revision of the engine this behaviour runs
    nostart,    \* Client.nostart
    started,    \* Client.started (lazy revision only)
    authID,     \* Client.authID
    authPW,     \* Client.authPW
    token,      \* Client.token
    jar,        \* Client.client.Jar / Client.cl.Jar
    mu,         \* Client's embedded sync.Mutex: 0 free, else the holder
    built,      \* "no" | "yes" | "failed": has NewClient returned a client
    stack,      \* per goroutine: the frames of its active calls
    ret,        \* per goroutine: the value the last returned call left
    calls,      \* public calls started so far, by all goroutines
    srvTok,     \* number of tokens the device has issued so far
    superseded, \* tokens that were stored once and have been replaced
    installs,   \* completed SetSessionAndTokenID calls that followed a bootstrap
    dropped,    \* the cookies the last SetSessionAndTokenID threw away
    shared,     \* was a second Client given the same *http.Client
    peer        \* that second Client: its token, its own jar, its calls

vars == << rev, nostart, started, authID, authPW, token, jar, mu, built, stack, ret,
           calls, srvTok, superseded, installs, dropped, shared, peer >>

(***************************************************************************)
(* Bounds of the model.                                                    *)
(***************************************************************************)
NProc == 2          \* goroutines sharing the client
MaxCalls == 2       \* public calls made on the client
MaxTok == 2         \* tokens the device issues before it stops rotating

Procs == 1..NProc

(***************************************************************************)
(* Program constants.                                                      *)
(***************************************************************************)
StatusOK == 200                                     \* http.StatusOK
SesTokInfoPath == "api/webserver/SesTokInfo"
LoginPath == "api/user/login"
SessionPrefix == "SessionID="

(***************************************************************************)
(* Strings.                                                                *)
(***************************************************************************)
Empty == << >>
Str(a) == << a >>

TokNames == << "t1", "t2", "t3", "t4", "t5", "t6" >>
Tok(n) == IF n = 0 THEN Empty ELSE Str(TokNames[n])

\* strings.TrimPrefix
TrimPrefix(s, p) == IF Len(s) >= 1 /\ s[1] = p THEN Tail(s) ELSE s

(***************************************************************************)
(* Errors ("" is Go's nil error).                                          *)
(***************************************************************************)
NoErr == ""
ErrBadStatusCode == "bad status code"
ErrInvalidResponse == "invalid response"
ErrInvalidError == "invalid error"
ErrInvalidValue == "invalid value"
ErrInvalidXML == "invalid xml"
ErrMissingRootElement == "missing root element"
ErrUnsupportedType == "unsupported type in encodeXML"
ErrXMLSyntax == "xml syntax error"
ErrTransport == "transport error"
ErrBodyRead == "body read error"
ErrDevice == "hilink error"
ErrMessageTooLong == "message too long"

(***************************************************************************)
(* Decoded XML: an mxj map is a set of entries with distinct names.  An    *)
(* entry's value is a string (kind "str"), a nested map (kind "map", its   *)
(* entries in kids) or a list of repeated elements (kind "list").          *)
(***************************************************************************)
SEntry(n, s) == [name |-> n, kind |-> "str", s |-> s, kids |-> {}]
MEntry(n, k) == [name |-> n, kind |-> "map", s |-> Empty, kids |-> k]
LEntry(n) == [name |-> n, kind |-> "list", s |-> Empty, kids |-> {}]

Has(m, n) == \E e \in m : e.name = n
Get(m, n) == CHOOSE e \in m : e.name = n

\* What a Go call returns: err, and a value whose dynamic type is ty.
\*   ty "mxj.Map" / "map": m holds the map; "bool": b; "string": s;
\*   "pair": s and s2; "nil": no value.
Result(err, ty, m, b, s, s2) ==
    [err |-> err, ty |-> ty, m |-> m, b |-> b, s |-> s, s2 |-> s2]
\* as Fail, but whatever went wrong is reported as an invalid response
FailGeneric(err) ==
    Result(IF err = NoErr THEN NoErr ELSE ErrInvalidResponse,
           "nil", {}, FALSE, Empty, Empty)
Fail(err) == Result(err, "nil", {}, FALSE, Empty, Empty)
NoResult == Fail(NoErr)
\* return nil, err: the error a callee returned, handed on as it is
Err(r) == Result(r.err, "nil", {}, FALSE, r.s, r.s2)

\* A response body as the transport hands it over: unreadable ("ioerr"),
\* not XML ("malformed"), or a document, the sequence els of its top-level
\* elements in the order they are written.
Body(kind, els) == [kind |-> kind, els |-> els]

ErrEOF == "EOF"

\* mxj.NewMapXml: the parser returns at the end tag of the first element
\* it meets, so the map holds that element alone and whatever follows it
\* in the document is never read; a document without an element is io.EOF.
NewMapXml(buf) ==
    IF buf.kind # "xml" THEN [err |-> ErrXMLSyntax, m |-> {}]
    ELSE IF buf.els = << >> THEN [err |-> ErrEOF, m |-> {}]
    ELSE [err |-> NoErr, m |-> {buf.els[1]}]

\* ErrorCodeMessageMap[c]: Go's map lookup, "" for a code not in the table
ErrorCodeMessageMap(c) ==
    CASE c = Str("-1") -> Str("system not available")
      [] c = Str("100003") -> Str("access denied")
      [] c = Str("108002") -> Str("invalid password")
      [] c = Str("125001") -> Str("invalid token")
      [] OTHER -> Empty

\* ErrorCodeMap(): the table of the eager revision, keyed by number
ErrorCodeMap(c) ==
    CASE c = Str("-1") -> Str("system not available")
      [] c = Str("100003") -> Str("unauthorized")
      [] c = Str("108002") -> Str("invalid password")
      [] c = Str("125001") -> Str("invalid token")
      [] OTHER -> Empty

\* strconv.Atoi succeeds on these codes of the model
Numeric == {Str("-1"), Str("100003"), Str("108002"), Str("125001"), Str("999999")}

\* ErrorMessageFromString: the entry of a numeric code the table knows,
\* else the entry of -1
ErrorMessageFromString(code) ==
    IF code \in Numeric /\ ErrorCodeMap(code) # Empty THEN ErrorCodeMap(code)
    ELSE ErrorCodeMap(Str("-1"))

\* the table lookup of decodeXML: ErrorCodeMessageMap[c] where the code is
\* at hand; the decoder of the eager revision goes through
\* ErrorMessageFromString
TableMessage(c) ==
    IF rev = "eager" THEN ErrorMessageFromString(c) ELSE ErrorCodeMessageMap(c)

\* z[key].(string) with the ok flag dropped: "" unless a string is there
StringOf(z, key) ==
    IF Has(z, key) /\ Get(z, key).kind = "str" THEN Get(z, key).s ELSE Empty

\* fmt.Errorf("hilink error %v: %s", z["code"], msg): the error carries
\* the code (s) and the message (s2)
DeviceError(z) ==
    LET msg == StringOf(z, "message")
    IN  Result(ErrDevice, "nil", {}, FALSE,
               IF Has(z, "code") THEN Get(z, "code").s ELSE Str("<nil>"),
               IF msg = Empty THEN TableMessage(StringOf(z, "code")) ELSE msg)

\* as decodeMap, but the single-root check is made before the error
\* envelope is looked for
decodeMapRootFirst(m, takeFirstEl) ==
    IF Cardinality(m) # 1 THEN Fail(ErrMissingRootElement)
    ELSE IF Has(m, "error")
    THEN IF Get(m, "error").kind # "map" THEN Fail(ErrInvalidError)
         ELSE DeviceError(Get(m, "error").kids)
    ELSE IF ~takeFirstEl
    THEN Result(NoErr, "mxj.Map", m, FALSE, Empty, Empty)
    ELSE LET r == CHOOSE e \in m : TRUE
         IN  IF r.kind # "map" THEN Fail(ErrInvalidXML)
             ELSE Result(NoErr, "map", r.kids, FALSE, Empty, Empty)

\* decodeXML after the parse: the error envelope first, then the
\* single-root check, then the unwrapping of the root element.
decodeMap(m, takeFirstEl) ==
    IF Has(m, "error")
    THEN IF Get(m, "error").kind # "map" THEN Fail(ErrInvalidError)
         ELSE DeviceError(Get(m, "error").kids)
    ELSE IF Cardinality(m) # 1 THEN Fail(ErrMissingRootElement)
    ELSE IF ~takeFirstEl
    THEN Result(NoErr, "mxj.Map", m, FALSE, Empty, Empty)
    ELSE LET r == CHOOSE e \in m : TRUE
         IN  IF r.kind # "map" THEN Fail(ErrInvalidXML)
             ELSE Result(NoErr, "map", r.kids, FALSE, Empty, Empty)

\* decodeXML: parse, then decodeMap
decodeXML(buf, takeFirstEl) ==
    LET p == NewMapXml(buf)
    IN  IF p.err # NoErr THEN Fail(p.err) ELSE decodeMap(p.m, takeFirstEl)

(***************************************************************************)
(* Requests.  A caller's body v is nil, a ready payload ([]byte), an       *)
(* XMLData map or a value of a type encodeXML does not support.            *)
(***************************************************************************)
NilBody == [kind |-> "nil", data |-> Empty]
Bytes(d) == [kind |-> "bytes", data |-> d]
OtherBody == [kind |-> "other", data |-> Empty]

\* encodeXML: a []byte passes through, an XMLData map is wrapped in a
\* request element, any other type is an error.
encodeXML(v) ==
    IF v.kind = "bytes" THEN [err |-> NoErr, data |-> v.data]
    ELSE IF v.kind = "XMLData"
    THEN [err |-> NoErr, data |-> Str("<request>") \o v.data \o Str("</request>")]
    ELSE [err |-> ErrUnsupportedType, data |-> Empty]

\* cookies: the Cookie header http.Client adds from the jar when it sends
Req(err, method, path, hasTok, tok, ctype, payload) ==
    [err |-> err, method |-> method, path |-> path, hasTok |-> hasTok,
     tok |-> tok, ctype |-> ctype, payload |-> payload, cookies |-> {}]
NoReq == Req(NoErr, "", "", FALSE, Empty, FALSE, Empty)

\* as createRequest, but the token header is left off the POST
createRequestNoToken(tk, path, v) ==
    IF v.kind = "nil" THEN Req(NoErr, "GET", path, FALSE, Empty, FALSE, Empty)
    ELSE LET body == encodeXML(v)
         IN  IF body.err # NoErr
             THEN Req(body.err, "", "", FALSE, Empty, FALSE, Empty)
             ELSE Req(NoErr, "POST", path, FALSE, Empty, TRUE, body.data)

\* as createRequest, but the method is GET whatever the body
createRequestAlwaysGet(tk, path, v) ==
    IF v.kind = "nil" THEN Req(NoErr, "GET", path, FALSE, Empty, FALSE, Empty)
    ELSE LET body == encodeXML(v)
         IN  IF body.err # NoErr
             THEN Req(body.err, "", "", FALSE, Empty, FALSE, Empty)
             ELSE Req(NoErr, "GET", path, TRUE, tk, TRUE, body.data)

\* createRequest / buildRequest: GET without headers for a nil body, else
\* POST with the content type and the client's token in TokenHeader.
createRequest(tk, path, v) ==
    IF v.kind = "nil" THEN Req(NoErr, "GET", path, FALSE, Empty, FALSE, Empty)
    ELSE LET body == encodeXML(v)
         IN  IF body.err # NoErr
             THEN Req(body.err, "", "", FALSE, Empty, FALSE, Empty)
             ELSE Req(NoErr, "POST", path, TRUE, tk, TRUE, body.data)

\* as BadStatus, but only "not found" is taken for a failure
BadStatusNotFoundOnly(code) == code = 404

\* as BadStatus, but every 2xx status is taken for a success
BadStatusNon2xx(code) == code < 200 \/ code > 299

\* r.StatusCode != http.StatusOK
BadStatus(code) == code # StatusOK

\* as Observe, but the header is taken only when the body will decode
ObserveIfBodyDecodes(tk, r) ==
    IF r.tok # Empty /\ decodeXML(r.body, FALSE).err = NoErr THEN r.tok ELSE tk

\* as Observe, but the header's value is stored even when it is empty
ObserveAlways(tk, r) == r.tok

\* tok := r.Header.Get(TokenHeader); if tok != "" { c.token = tok }
\* (r the response, tk the stored token; the result is the token to store)
Observe(tk, r) == IF r.tok # Empty THEN r.tok ELSE tk

(***************************************************************************)
(* Cookies.  A Set-Cookie header is <<name=, value, ...attributes>>; the   *)
(* jar is nil or a set of cookies with distinct names.                     *)
(***************************************************************************)
Cookie(n, val) == [name |-> n, value |-> val]
NilJar == [nil |-> TRUE, cookies |-> {}]
Jar(c) == [nil |-> FALSE, cookies |-> c]

SesNames == << "s1", "s2", "s3", "s4", "s5", "s6" >>
Ses(n) == Str(SesNames[n])
BodyTokNames == << "b1", "b2", "b3", "b4", "b5", "b6" >>
BodyTok(n) == Str(BodyTokNames[n])
LoginTokNames == << "l1", "l2", "l3", "l4", "l5", "l6" >>
LoginTok(n) == Str(LoginTokNames[n])

\* http.Client.Do with a non-nil Jar stores the response's cookie, replacing
\* the cookie of the same name; without a Jar the header is ignored.
JarAfter(j, setCookie) ==
    IF j.nil \/ Len(setCookie) < 2 THEN j
    ELSE LET n == IF setCookie[1] = SessionPrefix THEN "SessionID"
                  ELSE setCookie[1]
         IN  Jar({c \in j.cookies : c.name # n}
                 \cup {Cookie(n, Str(setCookie[2]))})

(***************************************************************************)
(* What the device (or the network) answers.  n indexes the fresh values   *)
(* the answer issues.                                                      *)
(***************************************************************************)
Resp(err, status, tok, tok1, setCookie, body) ==
    [err |-> err, status |-> status, tok |-> tok, tok1 |-> tok1,
     setCookie |-> setCookie, body |-> body]
NoBody == Body("none", << >>)
NoResp == Resp(NoErr, 0, Empty, Empty, Empty, NoBody)

DocOK == Body("xml", << SEntry("response", Str("OK")) >>)
DocFail == Body("xml", << SEntry("response", Str("FAIL")) >>)
DocErr == Body("xml", << MEntry("error", {SEntry("code", Str("108002"))}) >>)
DocData == Body("xml", << MEntry("response", {SEntry("Version", Str("1"))}) >>)
DocTwo == Body("xml", << SEntry("response", Str("OK")), SEntry("extra", Str("x")) >>)
DocSes(n) ==
    Body("xml", << MEntry("response",
                           {SEntry("SesInfo", Str(SessionPrefix) \o Ses(n)),
                            SEntry("TokInfo", BodyTok(n))}) >>)
DocSesNoTok(n) ==
    Body("xml", << MEntry("response",
                           {SEntry("SesInfo", Str(SessionPrefix) \o Ses(n))}) >>)
\* session-info answers whose SesInfo is an element tree, or is missing
DocSesTree(n) ==
    Body("xml", << MEntry("response",
                           {MEntry("SesInfo", {SEntry("id", Ses(n))}),
                            SEntry("TokInfo", BodyTok(n))}) >>)
DocNoSes(n) ==
    Body("xml", << MEntry("response", {SEntry("TokInfo", BodyTok(n))}) >>)
DocEmptyText == Body("xml", << SEntry("response", Empty) >>)
DocLower == Body("xml", << SEntry("response", Str("ok")) >>)
DocOtherRoot == Body("xml", << SEntry("config", Str("OK")) >>)
DocOtherData == Body("xml", << MEntry("config", {SEntry("Version", Str("2"))}) >>)
DocNoVersion == Body("xml", << MEntry("response", {SEntry("State", Str("0"))}) >>)
DocVersionTree ==
    Body("xml", << MEntry("response",
                          {MEntry("Version", {SEntry("Major", Str("1"))})}) >>)
DocVersionList == Body("xml", << MEntry("response", {LEntry("Version")}) >>)
DocNone == Body("xml", << >>)
DocTwoData ==
    Body("xml", << MEntry("response", {SEntry("Version", Str("1"))}),
                   MEntry("other", {SEntry("Version", Str("2"))}) >>)
DocErrFirst ==
    Body("xml", << MEntry("error", {SEntry("code", Str("108002"))}),
                   SEntry("response", Str("OK")) >>)
DocErrLast ==
    Body("xml", << SEntry("response", Str("OK")),
                   MEntry("error", {SEntry("code", Str("108002"))}) >>)
DocErrMsg ==
    Body("xml", << MEntry("error", {SEntry("code", Str("108002")),
                                     SEntry("message", Str("wrong password"))}) >>)
DocErrEmptyMsg ==
    Body("xml", << MEntry("error", {SEntry("code", Str("125001")),
                                     SEntry("message", Empty)}) >>)
DocErrUnknown == Body("xml", << MEntry("error", {SEntry("code", Str("999999"))}) >>)
DocErrWord == Body("xml", << MEntry("error", {SEntry("code", Str("busy"))}) >>)
DocErrNoCode == Body("xml", << MEntry("error", {SEntry("detail", Str("x"))}) >>)
DocErrText == Body("xml", << SEntry("error", Str("failed")) >>)
DocMalformed == Body("malformed", << >>)
DocUnreadable == Body("ioerr", << >>)

SetCookieSes(n) == Str(SessionPrefix) \o Ses(n) \o << ";", "path=/" >>
\* a cookie of the device that is not the session's
SetCookieLang == << "lang=", "en", ";", "path=/" >>

\* the endpoints the callers of the model use
CodecPath == "api/device/autorun-version"
SmsSendPath == "api/sms/send-sms"
RequestPath == "api/pb/pb-new"
PasswordPath == "api/user/password"
UssdStatusPath == "api/ussd/status"
UssdSendPath == "api/ussd/send"
UssdGetPath == "api/ussd/get"
UssdReleasePath == "api/ussd/release"

\* the answers of the USSD endpoints that carry a value
DocContent == Body("xml", << MEntry("response", {SEntry("content", Str("balance"))}) >>)
DocResult == Body("xml", << MEntry("response", {SEntry("result", Str("1"))}) >>)
DocResultWord == Body("xml", << MEntry("response", {SEntry("result", Str("busy"))}) >>)

\* every shape of document the decoder tells apart
CodecDocs ==
    {DocOK, DocFail, DocEmptyText, DocLower, DocOtherRoot, DocOtherData,
     DocData, DocNoVersion, DocVersionTree, DocVersionList,
     DocNone, DocTwo, DocTwoData, DocErrFirst, DocErrLast,
     DocErr, DocErrMsg, DocErrEmptyMsg, DocErrUnknown, DocErrWord,
     DocErrNoCode, DocErrText, DocMalformed, DocUnreadable}

Bodies(path, n) ==
    IF path = SesTokInfoPath
    THEN {DocSes(n), DocSesNoTok(n), DocSesTree(n), DocNoSes(n), DocErr,
          DocMalformed}
    ELSE IF path = CodecPath THEN CodecDocs
    ELSE IF path \in {SmsSendPath, RequestPath, PasswordPath} THEN {DocOK, DocErr}
    ELSE IF path = UssdGetPath THEN {DocContent, DocErr}
    ELSE IF path = UssdStatusPath THEN {DocResult, DocResultWord, DocErr}
    ELSE IF path \in {UssdSendPath, UssdReleasePath} THEN {DocOK, DocFail, DocErr}
    ELSE {DocOK, DocFail, DocErr, DocData, DocTwo, DocMalformed, DocUnreadable}

Responses(path, n) ==
    {Resp(ErrTransport, 0, Empty, Empty, Empty, NoBody)}
    \cup {Resp(NoErr, st, tk, Empty, Empty, DocOK) :
            st \in {204, 500}, tk \in {Empty, Tok(n)}}
    \cup {Resp(NoErr, StatusOK, tk, Empty, Empty, b) :
            tk \in {Empty, Tok(n)}, b \in Bodies(path, n)}
    \cup {Resp(NoErr, StatusOK, Tok(n), Empty, SetCookieSes(n), DocOK)}
    \cup (IF path = LoginPath
          THEN {Resp(NoErr, StatusOK, tk, t1, sc, DocOK) :
                  tk \in {Empty, Tok(n)}, t1 \in {Empty, LoginTok(n)},
                  sc \in {Empty, SetCookieSes(n)}}
          ELSE {})
    \cup (IF path = CodecPath
          THEN {Resp(NoErr, StatusOK, Empty, Empty, SetCookieLang, DocOK)}
          ELSE {})

\* Does the answer use up the fresh index n?
Issues(resp) ==
    \/ resp.tok # Empty \/ resp.tok1 # Empty
    \/ resp.setCookie # Empty /\ resp.setCookie[1] = SessionPrefix
    \/ \E i \in 1..Len(resp.body.els) :
          resp.body.els[i].kind = "map" /\ Has(resp.body.els[i].kids, "SesInfo")

(***************************************************************************)
(* Goroutines.  A frame is one active Go call: its function, the place it  *)
(* has reached, its parameters (path, v, takeFirstEl as first, the two     *)
(* strings s1, s2), its locals (req, resp, res) and the number of times it *)
(* has handed a request to the transport (sent).  stack[t][1] is the       *)
(* running call of goroutine t.                                            *)
(***************************************************************************)
Frame(fn, pc, path, v, first, s1, s2) ==
    [fn |-> fn, pc |-> pc, path |-> path, v |-> v, first |-> first,
     s1 |-> s1, s2 |-> s2, req |-> NoReq, resp |-> NoResp, res |-> NoResult,
     sent |-> 0]

Top(t) == stack[t][1]
Running(t, fn) == stack[t] # << >> /\ Top(t).fn = fn
At(t, fn, pc) == Running(t, fn) /\ Top(t).pc = pc

\* The running call moves to pc / replaces its frame.
Goto(t, pc) == stack' = [stack EXCEPT ![t][1].pc = pc]
SetTop(t, f) == stack' = [stack EXCEPT ![t][1] = f]

\* The running call calls f and will go on at pc when f returns.
Invoke(t, pc, f) ==
    stack' = [stack EXCEPT ![t] = << f, [Top(t) EXCEPT !.pc = pc] >> \o Tail(@)]

\* The running call returns r to its caller (the result of an outermost
\* call leaves the model).
Return(t, r) ==
    /\ stack' = [stack EXCEPT ![t] = Tail(@)]
    /\ ret' = [ret EXCEPT ![t] = IF Len(stack[t]) = 1 THEN NoResult ELSE r]

\* as CanLock, but nobody ever has to wait
CanLockAlways(t) == TRUE

\* sync.Mutex: Lock blocks while the mutex is held, by anyone.
CanLock(t) == mu = 0

\* as DeferredUnlock, but the lock is kept when the call returns an error
UnlockOnSuccessOnly(t, res) == mu' = IF res.err = NoErr THEN 0 ELSE mu

\* defer c.Unlock(): runs when the call returns, whatever result res it
\* returns
DeferredUnlock(t, res) == mu' = 0

\* Storing a token: the replaced one, if any, is superseded from now on.
StoreToken(tk) ==
    /\ token' = tk
    /\ superseded' = IF token # tk /\ token # Empty
                     THEN superseded \cup {token} ELSE superseded

config == << rev, nostart, authID, authPW, shared >>
ghosts == << srvTok, superseded, installs, dropped >>

(***************************************************************************)
(* doReq, both revisions.  The lazy revision first calls start(); the      *)
(* rest is the same code: lock, build, dispatch, status, observe, read,    *)
(* decode, and the deferred unlock.                                        *)
(***************************************************************************)
doReq(t) ==
    /\ Running(t, "doReq")
    /\ LET f == Top(t) IN
       CASE f.pc = "start" ->
              \* if err := cl.start(ctx); err != nil { return nil, err }
              /\ Invoke(t, "started", Frame("start", "lock", "", NilBody, FALSE, Empty, Empty))
              /\ UNCHANGED << config, peer, ghosts, token, jar, mu, started, built, ret, calls >>
         [] f.pc = "started" ->
              /\ IF ret[t].err # NoErr
                 THEN Return(t, Err(ret[t]))
                 ELSE Goto(t, "lock") /\ UNCHANGED ret
              /\ UNCHANGED << config, peer, ghosts, token, jar, mu, started, built, calls >>
         [] f.pc = "lock" ->
              /\ CanLock(t)
              /\ mu' = t
              /\ Goto(t, "build")
              /\ UNCHANGED << config, peer, ghosts, token, jar, started, built, ret, calls >>
         [] f.pc = "build" ->
              /\ LET q == createRequest(token, f.path, f.v)
                 IN  IF q.err # NoErr
                     THEN SetTop(t, [f EXCEPT !.pc = "unlock", !.res = Fail(q.err)])
                     ELSE SetTop(t, [f EXCEPT !.pc = "send", !.req = q])
              /\ UNCHANGED << config, peer, ghosts, token, jar, mu, started, built, ret, calls >>
         [] f.pc = "send" ->
              \* client.Do puts the request on the wire with the jar's cookies
              /\ SetTop(t, [f EXCEPT !.pc = "recv", !.req.cookies = jar.cookies,
                                     !.sent = @ + 1])
              /\ UNCHANGED << config, peer, ghosts, token, jar, mu, started, built, ret, calls >>
         [] f.pc = "recv" ->
              \* client.Do returns: an error, or a response whose cookies
              \* the jar has taken
              /\ \E r \in Responses(f.path, srvTok + 1) :
                    /\ Issues(r) => srvTok < MaxTok
                    /\ srvTok' = IF Issues(r) THEN srvTok + 1 ELSE srvTok
                    /\ jar' = JarAfter(jar, r.setCookie)
                    /\ IF r.err # NoErr
                       THEN SetTop(t, [f EXCEPT !.pc = "unlock", !.res = Fail(r.err)])
                       ELSE SetTop(t, [f EXCEPT !.pc = "status", !.resp = r])
              /\ UNCHANGED << config, peer, superseded, installs, dropped, token, mu,
                              started, built, ret, calls >>
         [] f.pc = "status" ->
              /\ IF BadStatus(f.resp.status)
                 THEN SetTop(t, [f EXCEPT !.pc = "unlock", !.res = Fail(ErrBadStatusCode)])
                 ELSE Goto(t, "observe")
              /\ UNCHANGED << config, peer, ghosts, token, jar, mu, started, built, ret, calls >>
         [] f.pc = "observe" ->
              /\ StoreToken(Observe(token, f.resp))
              /\ Goto(t, "read")
              /\ UNCHANGED << config, peer, srvTok, installs, dropped, jar, mu,
                              started, built, ret, calls >>
         [] f.pc = "read" ->
              /\ IF f.resp.body.kind = "ioerr"
                 THEN SetTop(t, [f EXCEPT !.pc = "unlock", !.res = Fail(ErrBodyRead)])
                 ELSE Goto(t, "decode")
              /\ UNCHANGED << config, peer, ghosts, token, jar, mu, started, built, ret, calls >>
         [] f.pc = "decode" ->
              /\ SetTop(t, [f EXCEPT !.pc = "unlock",
                                     !.res = decodeXML(f.resp.body, f.first)])
              /\ UNCHANGED << config, peer, ghosts, token, jar, mu, started, built, ret, calls >>
         [] f.pc = "unlock" ->
              \* the return, and the deferred c.Unlock()
              /\ DeferredUnlock(t, f.res)
              /\ Return(t, f.res)
              /\ UNCHANGED << config, peer, ghosts, token, jar, started, built, calls >>
         [] OTHER -> FALSE

\* The first place of doReq: the lazy revision starts the session first.
doReqEntry == IF rev = "lazy" THEN "start" ELSE "lock"
DoReqFrame(path, v, first) == Frame("doReq", doReqEntry, path, v, first, Empty, Empty)

(***************************************************************************)
(* The wrappers of doReq.                                                  *)
(***************************************************************************)
\* as DoConv, but a failed exchange is turned into an empty result
DoConvSwallow(r) ==
    IF r.err # NoErr THEN Result(NoErr, "map", {}, FALSE, Empty, Empty)
    ELSE IF r.ty # "map" THEN Fail(ErrInvalidXML)
    ELSE r

\* Do: the children of the root element, which must be a mapping.
DoConv(r) ==
    IF r.err # NoErr THEN Err(r)
    ELSE IF r.ty # "map" THEN Fail(ErrInvalidXML)
    ELSE r

Do(t) ==
    /\ Running(t, "Do")
    /\ LET f == Top(t) IN
       CASE f.pc = "call" ->
              /\ Invoke(t, "conv", DoReqFrame(f.path, f.v, TRUE))
              /\ UNCHANGED ret
         [] f.pc = "conv" ->
              /\ SetTop(t, [f EXCEPT !.pc = "ret", !.res = DoConv(ret[t])])
              /\ UNCHANGED ret
         [] f.pc = "ret" -> Return(t, f.res)
         [] OTHER -> FALSE
    /\ UNCHANGED << config, peer, ghosts, token, jar, mu, started, built, calls >>

\* as CheckOKConv, but a response other than OK is an error
CheckOKConvStrict(r) ==
    IF r.err # NoErr THEN Err(r)
    ELSE IF r.ty # "mxj.Map" THEN Fail(ErrInvalidResponse)
    ELSE IF ~Has(r.m, "response") THEN Fail(ErrInvalidResponse)
    ELSE IF Get(r.m, "response").kind # "str" THEN Fail(ErrInvalidValue)
    ELSE IF Get(r.m, "response").s # Str("OK") THEN Fail(ErrInvalidResponse)
    ELSE Result(NoErr, "bool", {}, TRUE, Empty, Empty)

\* as CheckOKConv, but a response that is not a string counts as "not OK"
CheckOKConvLenient(r) ==
    IF r.err # NoErr THEN Err(r)
    ELSE IF r.ty # "mxj.Map" THEN Fail(ErrInvalidResponse)
    ELSE IF ~Has(r.m, "response") THEN Fail(ErrInvalidResponse)
    ELSE Result(NoErr, "bool", {}, Get(r.m, "response").s = Str("OK"), Empty, Empty)

\* doReqCheckOK: the whole tree must hold a string named response; the
\* flag says whether it is the literal OK.
CheckOKConv(r) ==
    IF r.err # NoErr THEN Err(r)
    ELSE IF r.ty # "mxj.Map" THEN Fail(ErrInvalidResponse)
    ELSE IF ~Has(r.m, "response") THEN Fail(ErrInvalidResponse)
    ELSE IF Get(r.m, "response").kind # "str" THEN Fail(ErrInvalidValue)
    ELSE Result(NoErr, "bool", {}, Get(r.m, "response").s = Str("OK"), Empty, Empty)

doReqCheckOK(t) ==
    /\ Running(t, "doReqCheckOK")
    /\ LET f == Top(t) IN
       CASE f.pc = "call" ->
              /\ Invoke(t, "conv", DoReqFrame(f.path, f.v, FALSE))
              /\ UNCHANGED ret
         [] f.pc = "conv" ->
              /\ SetTop(t, [f EXCEPT !.pc = "ret", !.res = CheckOKConv(ret[t])])
              /\ UNCHANGED ret
         [] f.pc = "ret" -> Return(t, f.res)
         [] OTHER -> FALSE
    /\ UNCHANGED << config, peer, ghosts, token, jar, mu, started, built, calls >>

\* as StringConv, but a missing child is the empty string
StringConvAbsentEmpty(r, elName) ==
    IF r.err # NoErr THEN Err(r)
    ELSE IF r.ty # "map" THEN Fail(ErrInvalidXML)
    ELSE IF ~Has(r.m, elName) THEN Result(NoErr, "string", {}, FALSE, Empty, Empty)
    ELSE IF Get(r.m, elName).kind # "str" THEN Fail(ErrInvalidValue)
    ELSE Result(NoErr, "string", {}, FALSE, Get(r.m, elName).s, Empty)

\* doReqString: the string held by the child elName of the root element
StringConv(r, elName) ==
    IF r.err # NoErr THEN Err(r)
    ELSE IF r.ty # "map" THEN Fail(ErrInvalidXML)
    ELSE IF ~Has(r.m, elName) THEN Fail(ErrInvalidResponse)
    ELSE IF Get(r.m, elName).kind # "str" THEN Fail(ErrInvalidValue)
    ELSE Result(NoErr, "string", {}, FALSE, Get(r.m, elName).s, Empty)

\* doReqString(path, v, elName), elName in s1
doReqString(t) ==
    /\ Running(t, "doReqString")
    /\ LET f == Top(t) IN
       CASE f.pc = "call" ->
              /\ Invoke(t, "conv", DoReqFrame(f.path, f.v, TRUE))
              /\ UNCHANGED ret
         [] f.pc = "conv" ->
              /\ SetTop(t, [f EXCEPT !.pc = "ret", !.res = StringConv(ret[t], f.s1[1])])
              /\ UNCHANGED ret
         [] f.pc = "ret" -> Return(t, f.res)
         [] OTHER -> FALSE
    /\ UNCHANGED << config, peer, ghosts, token, jar, mu, started, built, calls >>

\* as SesTokConv, but an absent or non-string field is returned as the
\* empty string
SesTokConvLenient(r) ==
    IF r.err # NoErr THEN Err(r)
    ELSE IF r.ty # "map" THEN Fail(ErrInvalidResponse)
    ELSE Result(NoErr, "pair", {}, FALSE,
                TrimPrefix(StringOf(r.m, "SesInfo"), SessionPrefix),
                StringOf(r.m, "TokInfo"))

\* NewSessionAndTokenID: SesInfo without its prefix, and TokInfo.
SesTokConv(r) ==
    IF r.err # NoErr THEN Err(r)
    ELSE IF r.ty # "map" THEN Fail(ErrInvalidResponse)
    ELSE IF ~Has(r.m, "SesInfo") \/ ~Has(r.m, "TokInfo") THEN Fail(ErrInvalidResponse)
    ELSE IF Get(r.m, "SesInfo").kind # "str" \/ Get(r.m, "TokInfo").kind # "str"
    THEN Fail(ErrInvalidResponse)
    ELSE Result(NoErr, "pair", {}, FALSE,
                TrimPrefix(Get(r.m, "SesInfo").s, SessionPrefix),
                Get(r.m, "TokInfo").s)

NewSessionAndTokenID(t) ==
    /\ Running(t, "NewSessionAndTokenID")
    /\ LET f == Top(t) IN
       CASE f.pc = "call" ->
              /\ Invoke(t, "conv", DoReqFrame(SesTokInfoPath, NilBody, TRUE))
              /\ UNCHANGED ret
         [] f.pc = "conv" ->
              /\ SetTop(t, [f EXCEPT !.pc = "ret", !.res = SesTokConv(ret[t])])
              /\ UNCHANGED ret
         [] f.pc = "ret" -> Return(t, f.res)
         [] OTHER -> FALSE
    /\ UNCHANGED << config, peer, ghosts, token, jar, mu, started, built, calls >>

(***************************************************************************)
(* SetSessionAndTokenID(sessionID, tokenID), the parameters in s1 and s2.  *)
(***************************************************************************)
SetFrame(s, tk) == Frame("SetSessionAndTokenID", "lock", "", NilBody, FALSE, s, tk)

\* as FreshJar, but the cookies of other names are carried over from j
JarKeepOthers(j, s) ==
    Jar({c \in j.cookies : c.name # "SessionID"} \cup {Cookie("SessionID", s)})

\* c.client.Jar, err = cookiejar.New(nil), and SetCookies with the one
\* SessionID cookie: nothing of the jar j it replaces is kept
FreshJar(j, s) == Jar({Cookie("SessionID", s)})

SetSessionAndTokenID(t) ==
    /\ Running(t, "SetSessionAndTokenID")
    /\ LET f == Top(t) IN
       CASE f.pc = "lock" ->
              /\ CanLock(t)
              /\ mu' = t
              /\ Goto(t, "jar")
              /\ UNCHANGED << ghosts, token, jar, ret >>
         [] f.pc = "jar" ->
              \* a new jar holding the SessionID cookie alone
              /\ jar' = FreshJar(jar, f.s1)
              /\ dropped' = jar.cookies
              /\ Goto(t, "token")
              /\ UNCHANGED << srvTok, superseded, installs, token, mu, ret >>
         [] f.pc = "token" ->
              /\ StoreToken(f.s2)
              /\ Goto(t, "unlock")
              /\ UNCHANGED << srvTok, installs, dropped, jar, mu, ret >>
         [] f.pc = "unlock" ->
              /\ mu' = 0
              /\ installs' = installs + 1
              /\ Return(t, NoResult)
              /\ UNCHANGED << srvTok, superseded, dropped, token, jar >>
         [] OTHER -> FALSE
    /\ UNCHANGED << config, peer, started, built, calls >>

(***************************************************************************)
(* The login exchange.                                                     *)
(***************************************************************************)
\* hashPw, sha256 + hex + base64: one-way, kept symbolic
hashPw(x) == Str("hashPw(") \o x \o Str(")")

\* the pieces of markup a payload is made of, and its white space
XMLHeader == "<?xml version=\"1.0\" encoding=\"UTF-8\"?>"
Markup == {"<", ">", "</", "<request>", "</request>", XMLHeader}
White == {"\n", "  ", "    "}

\* fmt.Sprintf("%s<%s>%s</%s>\n", indent, name, value, name)
xmlPair(indent, name, value) ==
    Str(indent) \o Str("<") \o name \o Str(">") \o value
    \o Str("</") \o name \o Str(">") \o Str("\n")

RECURSIVE xmlPairsReversed(_, _)
\* as xmlPairs, but the pairs are written from the last to the first
xmlPairsReversed(indent, vals) ==
    IF Len(vals) < 2 THEN Empty
    ELSE xmlPairsReversed(indent, Tail(Tail(vals)))
         \o xmlPair(indent, vals[1], vals[2])

RECURSIVE xmlPairs(_, _)
\* the loop of xmlPairs: <name>value</name> for each (name, value) of vals,
\* in order; what it does with a last name that has no value is xmlPairsCall
xmlPairs(indent, vals) ==
    IF Len(vals) < 2 THEN Empty
    ELSE xmlPair(indent, vals[1], vals[2]) \o xmlPairs(indent, Tail(Tail(vals)))

\* SimpleRequestXML: the header and one request element around the pairs
SimpleRequestXML(vals) ==
    << XMLHeader, "\n", "<request>", "\n" >> \o xmlPairs("  ", vals)
    \o << "</request>", "\n" >>

\* as tokenizedPW, but the session cookie of the jar goes into the hash too
tokenizedPWWithSession(tk) ==
    hashPw(authID \o hashPw(authPW) \o tk
           \o (CHOOSE c \in jar.cookies : c.name = "SessionID").value)

\* the digest login sends: eager hashPw(id + hashPw(pw) + token), lazy
\* the hash of pw + token
tokenizedPW(tk) ==
    IF rev = "eager" THEN hashPw(authID \o hashPw(authPW) \o tk)
    ELSE hashPw(authPW \o tk)

LoginFields(tk) ==
    << Str("Username"), authID, Str("Password"), tokenizedPW(tk),
       Str("password_type"), Str("4") >>

\* the orders in which the members of S can follow each other
RECURSIVE Orders(_)
Orders(S) ==
    IF S = {} THEN {<< >>}
    ELSE UNION {{<< i >> \o p : p \in Orders(S \ {i})} : i \in S}

\* the pairs of vals, the p[k]-th pair at the k-th place
Reorder(vals, p) ==
    [k \in 1..Len(vals) |->
        IF k % 2 = 1 THEN vals[2 * p[(k + 1) \div 2] - 1] ELSE vals[2 * p[k \div 2]]]

\* XMLData{name: value, ...}, a Go map: it keeps nothing of the order its
\* literal was written in, so the elements m.XmlIndent writes for it come
\* in an order the call site does not decide
XMLDataBodies(vals) ==
    {[kind |-> "XMLData", data |-> xmlPairs("  ", Reorder(vals, p))] :
        p \in Orders(1..(Len(vals) \div 2))}

\* the body of the login request: the eager revision writes the pairs in
\* order, the lazy one hands an XMLData map to the encoder
LoginBodies(tk) ==
    IF rev = "eager" THEN {Bytes(SimpleRequestXML(LoginFields(tk)))}
    ELSE XMLDataBodies(LoginFields(tk))

\* strings.Split(s, sep)[0]
SplitFirst(s, sep) ==
    LET idx == {i \in 1..Len(s) : s[i] = sep}
    IN  IF idx = {} THEN s
        ELSE SubSeq(s, 1, (CHOOSE i \in idx : \A j \in idx : i <= j) - 1)

\* as LoginConv, but the token is taken from the standard token header
LoginConvStandardHeader(resp) ==
    LET r == decodeXML(resp.body, FALSE) IN
    IF r.err # NoErr THEN Err(r)
    ELSE IF r.ty # "mxj.Map" THEN Fail(ErrInvalidResponse)
    ELSE IF ~Has(r.m, "response") THEN Fail(ErrInvalidResponse)
    ELSE IF Get(r.m, "response").kind # "str" THEN Fail(ErrInvalidValue)
    ELSE IF Get(r.m, "response").s # Str("OK") THEN Fail(ErrInvalidResponse)
    ELSE Result(NoErr, "login", {}, FALSE,
                TrimPrefix(SplitFirst(resp.setCookie, ";"), SessionPrefix),
                resp.tok)

\* doReqLogin after the body is read: the boolean result must be OK; then
\* the login token header and the session id of Set-Cookie are returned.
LoginConv(resp) ==
    LET r == decodeXML(resp.body, FALSE) IN
    IF r.err # NoErr THEN Err(r)
    ELSE IF r.ty # "mxj.Map" THEN Fail(ErrInvalidResponse)
    ELSE IF ~Has(r.m, "response") THEN Fail(ErrInvalidResponse)
    ELSE IF Get(r.m, "response").kind # "str" THEN Fail(ErrInvalidValue)
    ELSE IF Get(r.m, "response").s # Str("OK") THEN Fail(ErrInvalidResponse)
    ELSE Result(NoErr, "login", {}, FALSE,
                TrimPrefix(SplitFirst(resp.setCookie, ";"), SessionPrefix),
                resp.tok1)

doReqLogin(t) ==
    /\ Running(t, "doReqLogin")
    /\ LET f == Top(t) IN
       CASE f.pc = "lock" ->
              /\ CanLock(t)
              /\ mu' = t
              /\ Goto(t, "build")
              /\ UNCHANGED << ghosts, jar, ret >>
         [] f.pc = "build" ->
              /\ LET q == createRequest(token, f.path, f.v)
                 IN  IF q.err # NoErr
                     THEN SetTop(t, [f EXCEPT !.pc = "unlock", !.res = Fail(q.err)])
                     ELSE SetTop(t, [f EXCEPT !.pc = "send", !.req = q])
              /\ UNCHANGED << ghosts, jar, mu, ret >>
         [] f.pc = "send" ->
              /\ SetTop(t, [f EXCEPT !.pc = "recv", !.req.cookies = jar.cookies,
                                     !.sent = @ + 1])
              /\ UNCHANGED << ghosts, jar, mu, ret >>
         [] f.pc = "recv" ->
              /\ \E r \in Responses(f.path, srvTok + 1) :
                    /\ Issues(r) => srvTok < MaxTok
                    /\ srvTok' = IF Issues(r) THEN srvTok + 1 ELSE srvTok
                    /\ jar' = JarAfter(jar, r.setCookie)
                    /\ IF r.err # NoErr
                       THEN SetTop(t, [f EXCEPT !.pc = "unlock", !.res = Fail(r.err)])
                       ELSE SetTop(t, [f EXCEPT !.pc = "status", !.resp = r])
              /\ UNCHANGED << superseded, installs, dropped, mu, ret >>
         [] f.pc = "status" ->
              /\ IF BadStatus(f.resp.status)
                 THEN SetTop(t, [f EXCEPT !.pc = "unlock", !.res = Fail(ErrBadStatusCode)])
                 ELSE Goto(t, "read")
              /\ UNCHANGED << ghosts, jar, mu, ret >>
         [] f.pc = "read" ->
              /\ IF f.resp.body.kind = "ioerr"
                 THEN SetTop(t, [f EXCEPT !.pc = "unlock", !.res = Fail(ErrBodyRead)])
                 ELSE SetTop(t, [f EXCEPT !.pc = "unlock", !.res = LoginConv(f.resp)])
              /\ UNCHANGED << ghosts, jar, mu, ret >>
         [] f.pc = "unlock" ->
              /\ DeferredUnlock(t, f.res)
              /\ Return(t, f.res)
              /\ UNCHANGED << ghosts, jar >>
         [] OTHER -> FALSE
    /\ UNCHANGED << config, peer, token, started, built, calls >>

\* as NoIdentifier, but login is attempted whatever the identifier
NoIdentifierNever(id) == FALSE

\* if c.authID == "" { return false, nil }
NoIdentifier(id) == id = Empty

\* login: skipped without an identifier; the digest is built from the
\* token read here, before the exchange takes the lock.
login(t) ==
    /\ Running(t, "login")
    /\ LET f == Top(t) IN
       CASE f.pc = "check" ->
              IF NoIdentifier(authID)
              THEN Return(t, Result(NoErr, "bool", {}, FALSE, Empty, Empty))
              ELSE /\ \E b \in LoginBodies(token) :
                        IF rev = "eager"
                        THEN Invoke(t, "install",
                                    Frame("doReqLogin", "lock", LoginPath,
                                          b, FALSE, Empty, Empty))
                        ELSE Invoke(t, "done",
                                    Frame("doReqCheckOK", "call", LoginPath,
                                          b, FALSE, Empty, Empty))
                   /\ UNCHANGED ret
         [] f.pc = "install" ->
              IF ret[t].err # NoErr
              THEN Return(t, Err(ret[t]))
              ELSE /\ Invoke(t, "ok", SetFrame(ret[t].s, ret[t].s2))
                   /\ UNCHANGED ret
         [] f.pc = "ok" ->
              Return(t, Result(NoErr, "bool", {}, TRUE, Empty, Empty))
         [] f.pc = "done" -> Return(t, ret[t])
         [] OTHER -> FALSE
    /\ UNCHANGED << config, peer, ghosts, token, jar, mu, started, built, calls >>

(***************************************************************************)
(* start (lazy revision): the bootstrap on first use, under the lock.      *)
(***************************************************************************)
start(t) ==
    /\ Running(t, "start")
    /\ LET f == Top(t) IN
       CASE f.pc = "lock" ->
              /\ CanLock(t)
              /\ mu' = t
              /\ Goto(t, "check")
              /\ UNCHANGED << started, ret >>
         [] f.pc = "check" ->
              \* if !cl.nostart { return nil }; if cl.started { return nil }
              /\ IF ~nostart \/ started
                 THEN SetTop(t, [f EXCEPT !.pc = "unlock", !.res = NoResult])
                 ELSE Invoke(t, "set",
                             Frame("NewSessionAndTokenID", "call", "", NilBody,
                                   FALSE, Empty, Empty))
              /\ UNCHANGED << mu, started, ret >>
         [] f.pc = "set" ->
              /\ IF ret[t].err # NoErr
                 THEN SetTop(t, [f EXCEPT !.pc = "unlock", !.res = Err(ret[t])])
                 ELSE Invoke(t, "login", SetFrame(ret[t].s, ret[t].s2))
              /\ UNCHANGED << mu, started, ret >>
         [] f.pc = "login" ->
              /\ Invoke(t, "done",
                        Frame("login", "check", "", NilBody, FALSE, Empty, Empty))
              /\ UNCHANGED << mu, started, ret >>
         [] f.pc = "done" ->
              /\ IF ret[t].err # NoErr
                 THEN SetTop(t, [f EXCEPT !.pc = "unlock", !.res = Err(ret[t])])
                      /\ UNCHANGED started
                 ELSE SetTop(t, [f EXCEPT !.pc = "unlock", !.res = NoResult])
                      /\ started' = TRUE
              /\ UNCHANGED << mu, ret >>
         [] f.pc = "unlock" ->
              /\ mu' = 0
              /\ Return(t, f.res)
              /\ UNCHANGED started
         [] OTHER -> FALSE
    /\ UNCHANGED << config, peer, ghosts, token, jar, built, calls >>

\* as NewClient, but the pair of the session-info answer is not installed
\* before the login
NewClientWithoutInstall(t) ==
    /\ Running(t, "NewClient")
    /\ LET f == Top(t) IN
       CASE f.pc = "opts" ->
              IF nostart
              THEN Return(t, NoResult) /\ built' = "yes"
              ELSE /\ Invoke(t, "set",
                             Frame("NewSessionAndTokenID", "call", "", NilBody,
                                   FALSE, Empty, Empty))
                   /\ UNCHANGED << built, ret >>
         [] f.pc = "set" ->
              IF ret[t].err # NoErr
              THEN Return(t, Err(ret[t])) /\ built' = "failed"
              ELSE /\ Invoke(t, "done",
                             Frame("login", "check", "", NilBody, FALSE, Empty, Empty))
                   /\ UNCHANGED << built, ret >>
         [] f.pc = "done" ->
              IF ret[t].err # NoErr
              THEN Return(t, Err(ret[t])) /\ built' = "failed"
              ELSE Return(t, NoResult) /\ built' = "yes"
         [] OTHER -> FALSE
    /\ UNCHANGED << config, peer, ghosts, token, jar, mu, started, calls >>

(***************************************************************************)
(* NewClient (eager revision): the handshake, unless NoSessionStart.       *)
(***************************************************************************)
NewClient(t) ==
    /\ Running(t, "NewClient")
    /\ LET f == Top(t) IN
       CASE f.pc = "opts" ->
              IF nostart
              THEN Return(t, NoResult) /\ built' = "yes"
              ELSE /\ Invoke(t, "set",
                             Frame("NewSessionAndTokenID", "call", "", NilBody,
                                   FALSE, Empty, Empty))
                   /\ UNCHANGED << built, ret >>
         [] f.pc = "set" ->
              IF ret[t].err # NoErr
              THEN Return(t, Err(ret[t])) /\ built' = "failed"
              ELSE /\ Invoke(t, "login", SetFrame(ret[t].s, ret[t].s2))
                   /\ UNCHANGED << built, ret >>
         [] f.pc = "login" ->
              /\ Invoke(t, "done",
                        Frame("login", "check", "", NilBody, FALSE, Empty, Empty))
              /\ UNCHANGED << built, ret >>
         [] f.pc = "done" ->
              IF ret[t].err # NoErr
              THEN Return(t, Err(ret[t])) /\ built' = "failed"
              ELSE Return(t, NoResult) /\ built' = "yes"
         [] OTHER -> FALSE
    /\ UNCHANGED << config, peer, ghosts, token, jar, mu, started, calls >>

(***************************************************************************)
(* The callers: any goroutine holding the client calls a public method.    *)
(***************************************************************************)
FeaturePath == "api/feature"
FeatureXML == SimpleRequestXML(<< Str("Index"), Str("1") >>)

\* cmd/hlcli: after NewClient, run fetches a session and installs it
run(t) ==
    /\ Running(t, "run")
    /\ LET f == Top(t) IN
       CASE f.pc = "new" ->
              /\ Invoke(t, "set",
                        Frame("NewSessionAndTokenID", "call", "", NilBody,
                              FALSE, Empty, Empty))
              /\ UNCHANGED ret
         [] f.pc = "set" ->
              IF ret[t].err # NoErr
              THEN Return(t, Err(ret[t]))
              ELSE Invoke(t, "ret", SetFrame(ret[t].s, ret[t].s2)) /\ UNCHANGED ret
         [] f.pc = "ret" -> Return(t, ret[t])
         [] OTHER -> FALSE
    /\ UNCHANGED << config, peer, ghosts, token, jar, mu, started, built, calls >>

PublicCalls ==
    {Frame("Do", "call", FeaturePath, v, FALSE, Empty, Empty) :
        v \in {NilBody, OtherBody}}
    \cup {Frame("doReqCheckOK", "call", FeaturePath, v, FALSE, Empty, Empty) :
            v \in {NilBody, Bytes(FeatureXML)}}
    \cup {Frame("run", "new", "", NilBody, FALSE, Empty, Empty)}

\* as Call, but the client is handed out before NewClient has returned
CallEarly(t) ==
    /\ stack[t] = << >>
    /\ calls < MaxCalls
    /\ \E f \in PublicCalls : stack' = [stack EXCEPT ![t] = << f >>]
    /\ calls' = calls + 1
    /\ UNCHANGED << config, peer, ghosts, token, jar, mu, started, built, ret >>

Call(t) ==
    /\ built = "yes"
    /\ stack[t] = << >>
    /\ calls < MaxCalls
    /\ \E f \in PublicCalls : stack' = [stack EXCEPT ![t] = << f >>]
    /\ calls' = calls + 1
    /\ UNCHANGED << config, peer, ghosts, token, jar, mu, started, built, ret >>

(***************************************************************************)
(* SmsSend(msg, to...), msg in s1 and the recipients in s2.  A message is  *)
(* a sequence of one-byte chunks, so that len(msg) is Len(msg).            *)
(***************************************************************************)
SmsMaxLen == 160

\* as TooLong, but a message of exactly the limit is let through
TooLongAboveLimit(msg) == Len(msg) > SmsMaxLen

\* len(msg) >= 160
TooLong(msg) == Len(msg) >= SmsMaxLen

Digits == << "0", "1", "2", "3", "4", "5", "6", "7", "8", "9" >>
RECURSIVE Itoa(_)
\* fmt.Sprintf("%d", n) for n >= 0
Itoa(n) ==
    IF n < 10 THEN Str(Digits[n + 1])
    ELSE Itoa(n \div 10) \o Str(Digits[(n % 10) + 1])

RECURSIVE Phones(_)
\* for _, t := range to { phones = append(phones, "Phone", t) }
Phones(to) ==
    IF to = << >> THEN << >>
    ELSE << Str("Phone"), Str(to[1]) >> \o Phones(Tail(to))

\* time.Now().Format("2006-01-02 15:04:05")
Now == Str("2006-01-02 15:04:05")

\* the fields of the send request, in the order the device wants them
SmsFields(msg, to) ==
    << Str("Index"), Str("-1"),
       Str("Phones"), Str("\n") \o xmlPairs("    ", Phones(to)),
       Str("Sca"), Empty,
       Str("Content"), msg,
       Str("Length"), Itoa(Len(msg)),
       Str("Reserved"), Str("1"),
       Str("Date"), Now >>

SmsSend(t) ==
    /\ Running(t, "SmsSend")
    /\ LET f == Top(t) IN
       CASE f.pc = "check" ->
              /\ IF TooLong(f.s1)
                 THEN SetTop(t, [f EXCEPT !.pc = "ret",
                                          !.res = Fail(ErrMessageTooLong)])
                 ELSE Invoke(t, "done",
                             Frame("doReqCheckOK", "call", SmsSendPath,
                                   Bytes(SimpleRequestXML(SmsFields(f.s1, f.s2))),
                                   FALSE, Empty, Empty))
              /\ UNCHANGED ret
         [] f.pc = "done" ->
              /\ SetTop(t, [f EXCEPT !.pc = "ret", !.res = ret[t]])
              /\ UNCHANGED ret
         [] f.pc = "ret" -> Return(t, f.res)
         [] OTHER -> FALSE
    /\ UNCHANGED << config, peer, ghosts, token, jar, mu, started, built, calls >>

(***************************************************************************)
(* ChangePassword(newPassword), eager revision, newPassword in s1: the     *)
(* proof of the current password is the digest login sends.                *)
(***************************************************************************)
\* base64.StdEncoding.EncodeToString, kept symbolic
base64(x) == Str("b64(") \o x \o Str(")")

ChangeFields(newPassword) ==
    << Str("Username"), authID,
       Str("CurrentPassword"), hashPw(authID \o hashPw(authPW) \o token),
       Str("NewPassword"), base64(newPassword),
       Str("encryption_enable"), Str("1") >>

ChangePassword(t) ==
    /\ Running(t, "ChangePassword")
    /\ LET f == Top(t) IN
       CASE f.pc = "call" ->
              /\ Invoke(t, "ret",
                        Frame("doReqCheckOK", "call", PasswordPath,
                              Bytes(SimpleRequestXML(ChangeFields(f.s1))),
                              FALSE, Empty, Empty))
              /\ UNCHANGED ret
         [] f.pc = "ret" -> Return(t, ret[t])
         [] OTHER -> FALSE
    /\ UNCHANGED << config, peer, ghosts, token, jar, mu, started, built, calls >>

(***************************************************************************)
(* One caller at a time: the calls that exercise the codec, the            *)
(* classifiers and the send check on every shape of answer.                *)
(***************************************************************************)
Msg(n) == [i \in 1..n |-> "x"]
Msgs == {Msg(n) : n \in {0, 1, SmsMaxLen - 1, SmsMaxLen, SmsMaxLen + 1}}
Recipients == {<< >>, << "+491" >>, << "+491", "+492" >>}

\* field lists a caller hands to SimpleRequestXML: up to MaxPairs pairs,
\* names repeated or not, values plain, empty or holding markup
MaxPairs == 2
FieldNames == {Str("Index"), Str("Phone")}
FieldValues == {Str("1"), Str("2"), Empty, Str("<")}
FieldLists ==
    {<< >>}
    \cup {<< n, v >> : n \in FieldNames, v \in FieldValues}
    \cup {<< n1, v1, n2, v2 >> :
            n1 \in FieldNames, v1 \in FieldValues,
            n2 \in FieldNames, v2 \in FieldValues}

CodecCalls ==
    {Frame("Do", "call", CodecPath, NilBody, FALSE, Empty, Empty),
     Frame("doReqCheckOK", "call", CodecPath, NilBody, FALSE, Empty, Empty),
     Frame("doReqString", "call", CodecPath, NilBody, FALSE, Str("Version"), Empty)}
    \cup {Frame("SmsSend", "check", "", NilBody, FALSE, msg, to) :
            msg \in Msgs, to \in Recipients}
    \cup {Frame("Do", "call", RequestPath, Bytes(SimpleRequestXML(vals)),
                FALSE, Empty, Empty) : vals \in FieldLists}
    \cup {Frame("run", "new", "", NilBody, FALSE, Empty, Empty)}
    \cup {Frame("ChangePassword", "call", "", NilBody, FALSE, Str("fresh"), Empty)}

\* ChangePassword is a method of the eager revision only
CallCodec(t) ==
    /\ built = "yes"
    /\ stack[t] = << >>
    /\ calls < MaxCalls
    /\ \E f \in CodecCalls :
          /\ f.fn = "ChangePassword" => rev = "eager"
          /\ stack' = [stack EXCEPT ![t] = << f >>]
    /\ calls' = calls + 1
    /\ UNCHANGED << config, peer, ghosts, token, jar, mu, started, built, ret >>

(***************************************************************************)
(* The client after its options ran.                                       *)
(***************************************************************************)
\* the password the caller hands to Auth / WithAuth
RawPassword == Str("secret")

\* as AuthPW, but the password is stored as given
AuthPWPlain(id, pw) == IF id = Empty THEN Empty ELSE pw

\* Auth / WithAuth: ignored for an empty id; else the id and the id
\* followed by the encoded hash of the password
AuthPW(id, pw) == IF id = Empty THEN Empty ELSE id \o Str("b64(hex(sha256(") \o pw \o Str(")))")

\* the second Client before its first call
NoPeer == [token |-> Empty, jar |-> NilJar, ops |-> 0]

InitClient ==
    /\ rev \in {"eager", "lazy"}
    /\ nostart \in BOOLEAN
    /\ authID \in {Empty, Str("admin")}
    /\ authPW = AuthPW(authID, RawPassword)
    /\ started = FALSE
    /\ token = Empty
    /\ jar = NilJar
    /\ mu = 0
    /\ built = IF rev = "eager" THEN "no" ELSE "yes"
    /\ stack = [t \in Procs |->
                  IF rev = "eager" /\ t = 1
                  THEN << Frame("NewClient", "opts", "", NilBody, FALSE, Empty, Empty) >>
                  ELSE << >>]
    /\ ret = [t \in Procs |-> NoResult]
    /\ calls = 0
    /\ srvTok = 0
    /\ superseded = {}
    /\ installs = 0
    /\ dropped = {}
    /\ peer = NoPeer

\* one Client, with an *http.Client of its own
Init == InitClient /\ shared = FALSE

Next ==
    \E t \in Procs :
        \/ Call(t)
        \/ run(t)
        \/ NewClient(t)
        \/ start(t)
        \/ login(t)
        \/ doReq(t)
        \/ doReqLogin(t)
        \/ Do(t)
        \/ doReqCheckOK(t)
        \/ NewSessionAndTokenID(t)
        \/ SetSessionAndTokenID(t)

Spec == Init /\ [][Next]_vars

(***************************************************************************)
(* Two Clients.  The second one runs the same code on its own token and    *)
(* its own mutex; HTTPClient / WithHTTPClient stores the caller's          *)
(* *http.Client in the Client, so two Clients built with the same one use  *)
(* one http.Client, and the jar is a field of the http.Client.             *)
(***************************************************************************)
MaxPeerOps == 2

\* the session and the tokens the second Client's device issues
PeerSes == Str("ps1")
PeerTok(n) == Str(<< "pt1", "pt2", "pt3" >>[n])

\* the jar of the http.Client the second Client sends with
PeerJar == IF shared THEN jar ELSE peer.jar

\* the second Client stores jar j in its http.Client and token tk in itself
PeerStore(j, tk) ==
    /\ peer.ops < MaxPeerOps
    /\ IF shared
       THEN /\ jar' = j
            /\ peer' = [peer EXCEPT !.token = tk, !.ops = @ + 1]
       ELSE /\ peer' = [peer EXCEPT !.jar = j, !.token = tk, !.ops = @ + 1]
            /\ UNCHANGED jar
    /\ UNCHANGED << config, ghosts, token, mu, started, built, stack, ret, calls >>

\* SetSessionAndTokenID of the second Client, under its own lock: a new jar
\* is assigned to c.client.Jar
peerSetSessionAndTokenID ==
    PeerStore(FreshJar(PeerJar, PeerSes), PeerTok(peer.ops + 1))

\* doReq of the second Client, under its own lock: c.client.Do keeps the
\* answer's cookie in the jar, and the answer's token is stored
peerDoReq ==
    \E sc \in {Empty, SetCookieLang}, tk \in {Empty, PeerTok(peer.ops + 1)} :
        PeerStore(JarAfter(PeerJar, sc), IF tk # Empty THEN tk ELSE peer.token)

\* the two Clients were given an *http.Client each, or the same one
InitPeers == InitClient /\ shared \in BOOLEAN

\* one caller on the first Client, and the calls of the second Client
NextPeers ==
    \/ Call(1)
    \/ run(1)
    \/ NewClient(1)
    \/ start(1)
    \/ login(1)
    \/ doReq(1)
    \/ doReqLogin(1)
    \/ Do(1)
    \/ doReqCheckOK(1)
    \/ NewSessionAndTokenID(1)
    \/ SetSessionAndTokenID(1)
    \/ peerSetSessionAndTokenID
    \/ peerDoReq

SpecPeers == InitPeers /\ [][NextPeers]_vars

(***************************************************************************)
(* The encoders as functions of their argument list.  A call returns the   *)
(* bytes, or panics: with the message that only pairs are accepted, or in  *)
(* the runtime with an index out of range.  util.go tests the length in    *)
(* SimpleRequestXML, part_007 in xmlPairs.                                 *)
(***************************************************************************)
Utils == {"util.go", "part_007"}
NoPanic == "none"
PanicPairsOnly == "can only accept pairs of strings"
PanicIndexOutOfRange == "index out of range"

Outcome(panic, out) == [panic |-> panic, out |-> out]
Odd(vals) == Len(vals) % 2 # 0

\* xmlPairs(indent, vals...): part_007 panics on an odd length before it
\* writes; util.go reads vals[i+1] past the end for the last name
xmlPairsCall(u, indent, vals) ==
    IF ~Odd(vals) THEN Outcome(NoPanic, xmlPairs(indent, vals))
    ELSE IF u = "part_007" THEN Outcome(PanicPairsOnly, Empty)
    ELSE Outcome(PanicIndexOutOfRange, Empty)

\* as SimpleRequestXMLCall, but without the length test of util.go
SimpleRequestXMLCallUnchecked(u, vals) ==
    LET p == xmlPairsCall(u, "  ", vals) IN
    IF p.panic # NoPanic THEN Outcome(p.panic, Empty)
    ELSE Outcome(NoPanic, << XMLHeader, "\n", "<request>", "\n" >> \o p.out
                          \o << "</request>", "\n" >>)

\* SimpleRequestXML(vals...): util.go panics on an odd length first; both
\* write header, pairs and end into a buffer of their own and return it
SimpleRequestXMLCall(u, vals) ==
    IF u = "util.go" /\ Odd(vals) THEN Outcome(PanicPairsOnly, Empty)
    ELSE LET p == xmlPairsCall(u, "  ", vals) IN
         IF p.panic # NoPanic THEN Outcome(p.panic, Empty)
         ELSE Outcome(NoPanic, << XMLHeader, "\n", "<request>", "\n" >> \o p.out
                               \o << "</request>", "\n" >>)

\* argument lists with a last name that has no value
OddLists ==
    {<< n >> : n \in FieldNames}
    \cup {<< n1, v1, n2 >> : n1 \in FieldNames, v1 \in FieldValues, n2 \in FieldNames}

\* the record of one call: the function, how it ended, the revision, what
\* it returned and the list it was given
Applied(fn, u, vals, o) ==
    Frame(fn, o.panic, u, Bytes(o.out), FALSE, vals, Empty)

ApplyXmlPairs ==
    /\ \E u \in Utils, vals \in FieldLists \cup OddLists :
          stack' = [stack EXCEPT ![1] =
                      << Applied("xmlPairs", u, vals, xmlPairsCall(u, "  ", vals)) >>]
    /\ UNCHANGED << config, peer, ghosts, token, jar, mu, started, built, ret, calls >>

ApplySimpleRequestXML ==
    /\ \E u \in Utils, vals \in FieldLists \cup OddLists :
          stack' = [stack EXCEPT ![1] =
                      << Applied("SimpleRequestXML", u, vals,
                                 SimpleRequestXMLCall(u, vals)) >>]
    /\ UNCHANGED << config, peer, ghosts, token, jar, mu, started, built, ret, calls >>

\* the encoders alone, applied to every list
InitPairs == Init /\ rev = "lazy"
NextPairs == ApplyXmlPairs \/ ApplySimpleRequestXML
SpecPairs == InitPairs /\ [][NextPairs]_vars

(***************************************************************************)
(* Two goroutines on one client, one of them changing the password: the    *)
(* calls are ChangePassword (eager revision) and a plain read.             *)
(***************************************************************************)
RaceCalls ==
    {Frame("ChangePassword", "call", "", NilBody, FALSE, Str("fresh"), Empty),
     Frame("Do", "call", FeaturePath, NilBody, FALSE, Empty, Empty)}

CallRace(t) ==
    /\ built = "yes"
    /\ stack[t] = << >>
    /\ calls < MaxCalls
    /\ \E f \in RaceCalls :
          /\ f.fn = "ChangePassword" => rev = "eager"
          /\ stack' = [stack EXCEPT ![t] = << f >>]
    /\ calls' = calls + 1
    /\ UNCHANGED << config, peer, ghosts, token, jar, mu, started, built, ret >>

NextRace ==
    \E t \in Procs :
        \/ CallRace(t)
        \/ ChangePassword(t)
        \/ NewClient(t)
        \/ start(t)
        \/ login(t)
        \/ doReq(t)
        \/ doReqLogin(t)
        \/ Do(t)
        \/ doReqCheckOK(t)
        \/ NewSessionAndTokenID(t)
        \/ SetSessionAndTokenID(t)

SpecRace == Init /\ [][NextRace]_vars

(***************************************************************************)
(* The lazy revision alone, its goroutines invoking Do.  Every goroutine   *)
(* that can take a step eventually takes one: a transport call returns,    *)
(* and a goroutine that is not blocked at Lock is scheduled.               *)
(***************************************************************************)
LazyCalls ==
    {Frame("Do", "call", FeaturePath, v, FALSE, Empty, Empty) :
        v \in {NilBody, OtherBody}}

CallLazy(t) ==
    /\ built = "yes"
    /\ stack[t] = << >>
    /\ calls < MaxCalls
    /\ \E f \in LazyCalls : stack' = [stack EXCEPT ![t] = << f >>]
    /\ calls' = calls + 1
    /\ UNCHANGED << config, peer, ghosts, token, jar, mu, started, built, ret >>

\* a step of a call goroutine t is running
ProceedLazy(t) ==
    \/ Do(t)
    \/ doReq(t)
    \/ start(t)
    \/ NewSessionAndTokenID(t)

InitLazy == Init /\ rev = "lazy"

NextLazy == \E t \in Procs : CallLazy(t) \/ ProceedLazy(t)

SpecLazy ==
    InitLazy /\ [][NextLazy]_vars /\ \A t \in Procs : WF_vars(ProceedLazy(t))

(***************************************************************************)
(* The write requests alone: the body a call site makes of its fields,     *)
(* and the request createRequest builds of it.  s1 keeps the fields in the *)
(* order the call site wrote them.                                         *)
(***************************************************************************)
Written(fn, path, vals, body, tk) ==
    [Frame(fn, "wire", path, body, FALSE, vals, Empty)
        EXCEPT !.req = createRequest(tk, path, body)]

LoginTokens == {Empty} \cup {BodyTok(n) : n \in 1..MaxTok}

\* login, from its test of the identifier to the request it has built
WriteLogin ==
    /\ ~NoIdentifier(authID)
    /\ \E tk \in LoginTokens : \E b \in LoginBodies(tk) :
          /\ token' = tk
          /\ stack' = [stack EXCEPT ![1] =
                         << Written("login", LoginPath, LoginFields(tk), b, tk) >>]
    /\ UNCHANGED << config, peer, ghosts, jar, mu, started, built, ret, calls >>

\* a caller of SimpleRequestXML, to the request built of its payload
WriteFields ==
    /\ \E vals \in FieldLists :
          stack' = [stack EXCEPT ![1] =
                      << Written("Do", RequestPath, vals,
                                 Bytes(SimpleRequestXML(vals)), token) >>]
    /\ UNCHANGED << config, peer, ghosts, token, jar, mu, started, built, ret, calls >>

NextWrite == WriteLogin \/ WriteFields
SpecWrite == Init /\ [][NextWrite]_vars

(***************************************************************************)
(* cmd/ussd.  The USSD methods of the client, and the tool's main (run in  *)
(* the lazy revision's tool): the code is in s1, the flags given on the    *)
(* command line in s2.                                                     *)
(***************************************************************************)
UssdFields(code) ==
    << Str("content"), code, Str("codeType"), Str("CodeType"),
       Str("timeout"), Empty >>

\* strconv.Atoi succeeds
IsNumber(s) == s \in {Str("0"), Str("1"), Str("2")}

UssdStatus(t) ==
    /\ Running(t, "UssdStatus")
    /\ LET f == Top(t) IN
       CASE f.pc = "call" ->
              /\ Invoke(t, "conv",
                        Frame("doReqString", "call", UssdStatusPath, NilBody,
                              FALSE, Str("result"), Empty))
              /\ UNCHANGED ret
         [] f.pc = "conv" ->
              IF ret[t].err # NoErr THEN Return(t, Err(ret[t]))
              ELSE IF ~IsNumber(ret[t].s) THEN Return(t, Fail(ErrInvalidResponse))
              ELSE Return(t, ret[t])
         [] OTHER -> FALSE
    /\ UNCHANGED << config, peer, ghosts, token, jar, mu, started, built, calls >>

UssdCode(t) ==
    /\ Running(t, "UssdCode")
    /\ LET f == Top(t) IN
       CASE f.pc = "call" ->
              /\ Invoke(t, "ret",
                        Frame("doReqCheckOK", "call", UssdSendPath,
                              Bytes(SimpleRequestXML(UssdFields(f.s1))),
                              FALSE, Empty, Empty))
              /\ UNCHANGED ret
         [] f.pc = "ret" -> Return(t, ret[t])
         [] OTHER -> FALSE
    /\ UNCHANGED << config, peer, ghosts, token, jar, mu, started, built, calls >>

UssdContent(t) ==
    /\ Running(t, "UssdContent")
    /\ LET f == Top(t) IN
       CASE f.pc = "call" ->
              /\ Invoke(t, "ret",
                        Frame("doReqString", "call", UssdGetPath, NilBody,
                              FALSE, Str("content"), Empty))
              /\ UNCHANGED ret
         [] f.pc = "ret" -> Return(t, ret[t])
         [] OTHER -> FALSE
    /\ UNCHANGED << config, peer, ghosts, token, jar, mu, started, built, calls >>

UssdRelease(t) ==
    /\ Running(t, "UssdRelease")
    /\ LET f == Top(t) IN
       CASE f.pc = "call" ->
              /\ Invoke(t, "ret",
                        Frame("doReqCheckOK", "call", UssdReleasePath, NilBody,
                              FALSE, Empty, Empty))
              /\ UNCHANGED ret
         [] f.pc = "ret" -> Return(t, ret[t])
         [] OTHER -> FALSE
    /\ UNCHANGED << config, peer, ghosts, token, jar, mu, started, built, calls >>

Given(f, flag) == \E i \in 1..Len(f.s2) : f.s2[i] = flag

\* as SleepsBeforeContent, but -nowait ends the tool once the code is sent
SleepsUnlessNoWait(f) == ~Given(f, "-nowait")

\* time.Sleep(sleep) after the conditional one: taken whatever the flags
SleepsBeforeContent(f) == TRUE

\* the process ends: os.Exit, log.Fatal, or the return of main
Exit(t) == Return(t, NoResult)

main(t) ==
    /\ Running(t, "main")
    /\ LET f == Top(t) IN
       CASE f.pc = "new" ->
              IF rev = "eager"
              THEN /\ Invoke(t, "client",
                             Frame("NewClient", "opts", "", NilBody, FALSE, Empty, Empty))
                   /\ UNCHANGED << built, ret >>
              ELSE Goto(t, "flags") /\ built' = "yes" /\ UNCHANGED ret
         [] f.pc = "client" ->
              \* if err != nil { log.Fatal(err) }
              /\ IF ret[t].err # NoErr THEN Exit(t)
                 ELSE Goto(t, "flags") /\ UNCHANGED ret
              /\ UNCHANGED built
         [] f.pc = "flags" ->
              /\ IF Given(f, "-r")
                 THEN Invoke(t, "done",
                             Frame("UssdRelease", "call", "", NilBody, FALSE, Empty, Empty))
                      /\ UNCHANGED ret
                 ELSE IF Given(f, "-check")
                 THEN Invoke(t, "done",
                             Frame("UssdStatus", "call", "", NilBody, FALSE, Empty, Empty))
                      /\ UNCHANGED ret
                 ELSE IF f.s1 = Empty THEN Exit(t)
                 ELSE Invoke(t, "sent",
                             Frame("UssdCode", "call", "", NilBody, FALSE, f.s1, Empty))
                      /\ UNCHANGED ret
              /\ UNCHANGED built
         [] f.pc = "sent" ->
              \* an error, or a result that is not OK, ends the tool
              /\ IF ret[t].err # NoErr \/ ~ret[t].b THEN Exit(t)
                 ELSE Goto(t, "wait") /\ UNCHANGED ret
              /\ UNCHANGED built
         [] f.pc = "wait" ->
              \* if !noWait { time.Sleep(sleep) }
              /\ Goto(t, "sleep")
              /\ UNCHANGED << built, ret >>
         [] f.pc = "sleep" ->
              /\ IF SleepsBeforeContent(f) THEN Goto(t, "content") /\ UNCHANGED ret
                 ELSE Exit(t)
              /\ UNCHANGED built
         [] f.pc = "content" ->
              /\ Invoke(t, "done",
                        Frame("UssdContent", "call", "", NilBody, FALSE, Empty, Empty))
              /\ UNCHANGED << built, ret >>
         [] f.pc = "done" ->
              \* the result or the error is printed
              Exit(t) /\ UNCHANGED built
         [] OTHER -> FALSE
    /\ UNCHANGED << config, peer, ghosts, token, jar, mu, started, calls >>

\* the command lines: -r is a flag of the lazy revision's tool only
UssdCodes == {Empty, Str("*100#")}
UssdFlags ==
    {<< >>, << "-nowait" >>, << "-check" >>, << "-check", "-nowait" >>,
     << "-r" >>, << "-r", "-nowait" >>}

InitUssd ==
    /\ rev \in {"eager", "lazy"}
    /\ nostart = FALSE
    /\ authID = Empty
    /\ authPW = AuthPW(authID, RawPassword)
    /\ started = FALSE
    /\ token = Empty
    /\ jar = NilJar
    /\ mu = 0
    /\ built = "no"
    /\ \E code \in UssdCodes, flags \in UssdFlags :
          /\ Given([s2 |-> flags], "-r") => rev = "lazy"
          /\ stack = [t \in Procs |->
                        IF t = 1
                        THEN << Frame("main", "new", "", NilBody, FALSE, code, flags) >>
                        ELSE << >>]
    /\ ret = [t \in Procs |-> NoResult]
    /\ calls = 0
    /\ srvTok = 0
    /\ superseded = {}
    /\ installs = 0
    /\ dropped = {}
    /\ peer = NoPeer
    /\ shared = FALSE

NextUssd ==
    \/ main(1)
    \/ UssdStatus(1)
    \/ UssdCode(1)
    \/ UssdContent(1)
    \/ UssdRelease(1)
    \/ NewClient(1)
    \/ start(1)
    \/ login(1)
    \/ doReq(1)
    \/ doReqCheckOK(1)
    \/ doReqString(1)
    \/ NewSessionAndTokenID(1)
    \/ SetSessionAndTokenID(1)

SpecUssd == InitUssd /\ [][NextUssd]_vars

\* a single caller, making the calls of CodecCalls one after the other
NextCodec ==
    \/ CallCodec(1)
    \/ run(1)
    \/ ChangePassword(1)
    \/ NewClient(1)
    \/ start(1)
    \/ login(1)
    \/ doReq(1)
    \/ doReqLogin(1)
    \/ Do(1)
    \/ doReqCheckOK(1)
    \/ doReqString(1)
    \/ SmsSend(1)
    \/ NewSessionAndTokenID(1)
    \/ SetSessionAndTokenID(1)

SpecCodec == Init /\ [][NextCodec]_vars

(***************************************************************************)
(* Positions the properties speak about.                                   *)
(***************************************************************************)
Frames == {<< t, i >> \in Procs \X (1..8) : i <= Len(stack[t])}
FrameAt(x) == stack[x[1]][x[2]]

\* between taking the lock and releasing it
Critical(f) ==
    \/ f.fn = "doReq" /\ f.pc \in {"build", "send", "recv", "status", "observe",
                                   "read", "decode", "unlock"}
    \/ f.fn = "doReqLogin" /\ f.pc \in {"build", "send", "recv", "status", "read",
                                        "unlock"}
    \/ f.fn = "SetSessionAndTokenID" /\ f.pc \in {"jar", "token", "unlock"}
    \/ f.fn = "start" /\ f.pc \in {"check", "set", "login", "done", "unlock"}

\* a request engine call
Exchange(f) == f.fn \in {"doReq", "doReqLogin"}
\* its request is built and leaving, or on the wire awaiting the answer
Built(f) == Exchange(f) /\ f.pc \in {"send", "recv"}
InFlight(f) == Exchange(f) /\ f.pc = "recv"
\* it waits for the lock
Waiting(f) == f.pc = "lock"

(***************************************************************************)
(* C1: on one client at most one of the bootstrap exchange, the login      *)
(* exchange, an ordinary doReq and SetSessionAndTokenID is inside its      *)
(* critical section, whatever the callers do.                              *)
(***************************************************************************)
C1_MutualExclusion ==
    Cardinality({x \in Frames : Critical(FrameAt(x))}) <= 1

\* one caller is on the wire while another one waits for the lock
C1_Witness ==
    \E x, y \in Frames :
        /\ x[1] # y[1]
        /\ InFlight(FrameAt(x))
        /\ Waiting(FrameAt(y)) /\ FrameAt(y).fn \in {"doReq", "SetSessionAndTokenID"}

(***************************************************************************)
(* C2: a request's token is read with no other request of the client in    *)
(* flight, and the token a request carries is the stored token, which is   *)
(* never one that has been superseded.                                     *)
(***************************************************************************)
C2_TokenSerialized ==
    \A x \in Frames :
        LET f == FrameAt(x) IN
        Built(f) =>
            /\ f.req.hasTok => (f.req.tok = token /\ f.req.tok \notin superseded)
            /\ \A y \in Frames : (y # x /\ Exchange(FrameAt(y))) =>
                    FrameAt(y).pc \in {"start", "started", "lock"}

\* a request carries a token that replaced an earlier one, while another
\* caller waits to send
C2_Witness ==
    \E x, y \in Frames :
        /\ x[1] # y[1]
        /\ InFlight(FrameAt(x)) /\ FrameAt(x).req.hasTok
        /\ FrameAt(x).req.tok # Empty /\ superseded # {}
        /\ FrameAt(y).fn = "doReq" /\ Waiting(FrameAt(y))

(***************************************************************************)
(* C3: no call waits for the client lock while its own call chain holds    *)
(* it (an invoke that does never returns).                                 *)
(***************************************************************************)
C3_NoSelfWait ==
    \A t \in Procs : ~(stack[t] # << >> /\ Waiting(Top(t)) /\ mu = t)

(***************************************************************************)
(* C4: with automatic start left enabled, an ordinary request is on the    *)
(* wire only after a bootstrap has been installed.                         *)
(***************************************************************************)
C4_BootstrapFirst ==
    \A x \in Frames :
        LET f == FrameAt(x) IN
        (~nostart /\ InFlight(f) /\ f.path = FeaturePath) => installs >= 1

C6_TokenAdvancesOnBadBody ==
    \A x \in Frames :
        LET f == FrameAt(x) IN
        (f.fn = "doReq" /\ f.pc = "unlock" /\ f.resp.status = StatusOK
            /\ f.resp.tok # Empty /\ f.res.err # NoErr) => token = f.resp.tok

\* a 200 answer with a token and a body that is not XML: the error is
\* returned
C6_Witness ==
    \E x \in Frames :
        LET f == FrameAt(x) IN
        /\ f.fn = "doReq" /\ f.pc = "unlock" /\ f.resp.status = StatusOK
        /\ f.resp.tok # Empty /\ f.res.err = ErrXMLSyntax
        /\ token = f.resp.tok

(***************************************************************************)
(* C7: the observation step of doReq stores the header's token when the    *)
(* header is there and not empty, keeps the stored token otherwise, and    *)
(* changes nothing else of the client.                                     *)
(***************************************************************************)
Observing(t) ==
    /\ At(t, "doReq", "observe")
    /\ Len(stack'[t]) = Len(stack[t])
    /\ stack'[t][1].pc = "read"

C7_ObserveFrame ==
    [][\A t \in Procs :
          Observing(t) =>
            /\ token' = IF Top(t).resp.tok # Empty THEN Top(t).resp.tok ELSE token
            /\ UNCHANGED << jar, mu, started, nostart, authID, authPW >>]_vars

\* both cases have happened: a header replaced the token; no header kept it
C7_WitnessKept ==
    \E t \in Procs :
        /\ At(t, "doReq", "read")
        /\ Top(t).resp.tok = Empty /\ token # Empty /\ ~jar.nil

C7_Witness ==
    \E t \in Procs :
        /\ At(t, "doReq", "read")
        /\ Top(t).resp.tok # Empty /\ token = Top(t).resp.tok /\ superseded # {}

(***************************************************************************)
(* C8, as claimed: once a session is installed every request on the wire,  *)
(* with a body or without, carries the stored token and the jar's cookies. *)
(***************************************************************************)
C8_EveryRequestCarriesToken ==
    \A x \in Frames :
        LET f == FrameAt(x) IN
        (InFlight(f) /\ installs >= 1) =>
            /\ f.req.hasTok /\ f.req.tok = token
            /\ f.req.cookies = jar.cookies

(***************************************************************************)
(* C8, amended: once a session is installed every request on the wire      *)
(* carries the jar's cookies, a request with a body carries the stored     *)
(* token, and a bodyless request carries no token header at all.           *)
(***************************************************************************)
C8_BodyRequestsCarryToken ==
    \A x \in Frames :
        LET f == FrameAt(x) IN
        (InFlight(f) /\ installs >= 1) =>
            /\ f.req.cookies = jar.cookies
            /\ ~jar.nil /\ (\E c \in f.req.cookies : c.name = "SessionID")
            /\ f.v.kind # "nil" => (f.req.hasTok /\ f.req.tok = token)
            /\ f.v.kind = "nil" => ~f.req.hasTok

\* after an install, a POST is on the wire with the rotated token
C8_Witness ==
    \E x \in Frames :
        LET f == FrameAt(x) IN
        /\ InFlight(f) /\ installs >= 1 /\ f.path = FeaturePath
        /\ f.v.kind = "bytes" /\ f.req.tok # Empty /\ superseded # {}

(***************************************************************************)
(* C9: a built request is a bodyless GET exactly when the body is nil;     *)
(* otherwise it is a POST whose payload is the caller's encoded body and   *)
(* whose token header is the stored token.                                 *)
(***************************************************************************)
C9_MethodByBody ==
    \A x \in Frames :
        LET f == FrameAt(x) IN
        Built(f) =>
            /\ f.v.kind = "nil" =>
                 (f.req.method = "GET" /\ f.req.payload = Empty
                    /\ ~f.req.hasTok /\ ~f.req.ctype)
            /\ f.v.kind # "nil" =>
                 (f.req.method = "POST" /\ f.req.ctype
                    /\ f.req.hasTok /\ f.req.tok = token
                    /\ (f.v.kind = "bytes" => f.req.payload = f.v.data))
            /\ mu = x[1]

\* a GET and a POST have been built
C9_Witness ==
    \E x \in Frames :
        LET f == FrameAt(x) IN
        /\ Built(f) /\ f.req.method = "POST" /\ f.req.payload = FeatureXML
        /\ f.req.tok # Empty

C9_WitnessGet ==
    \E x \in Frames :
        LET f == FrameAt(x) IN
        Built(f) /\ f.req.method = "GET" /\ f.v.kind = "nil" /\ token # Empty

(***************************************************************************)
(* C10: a response whose status is not 2xx ends the exchange with          *)
(* ErrBadStatusCode; its body is neither read nor decoded.                 *)
(***************************************************************************)
Non2xx(r) == r.err = NoErr /\ r.status # 0 /\ ~(r.status >= 200 /\ r.status <= 299)

C10_BadStatus ==
    \A x \in Frames :
        LET f == FrameAt(x) IN
        (Exchange(f) /\ Non2xx(f.resp) /\ f.pc # "status") =>
            (f.pc = "unlock" /\ f.res.err = ErrBadStatusCode)

\* a 500 has been answered to a feature request and doReq is about to
\* return the error
C10_Witness ==
    \E x \in Frames :
        LET f == FrameAt(x) IN
        /\ f.fn = "doReq" /\ f.pc = "unlock" /\ f.resp.status = 500
        /\ f.res.err = ErrBadStatusCode /\ f.path = FeaturePath

(***************************************************************************)
(* C11: no failure is swallowed or retried.  A call of the request engine  *)
(* hands its request to the transport at most once; it returns a value     *)
(* only when the build, the transport, the status check, the read and the  *)
(* decoder all succeeded, and an error without a value otherwise; a        *)
(* wrapper returns the engine's error as it is and a value only when its   *)
(* own classification succeeded.                                           *)
(***************************************************************************)
Wrapper(f) == f.fn \in {"Do", "doReqCheckOK", "NewSessionAndTokenID"}

C11_NoSwallowNoRetry ==
    \A x \in Frames :
        LET f == FrameAt(x)
            r == ret[x[1]]
        IN  /\ Exchange(f) =>
                /\ f.sent = (IF f.pc \in {"lock", "start", "started", "build", "send"}
                                \/ (f.pc = "unlock" /\ f.req = NoReq)
                             THEN 0 ELSE 1)
                /\ (f.pc = "unlock" /\ f.res.err = NoErr) =>
                      /\ f.req.err = NoErr /\ f.sent = 1
                      /\ f.resp.err = NoErr /\ f.resp.status = StatusOK
                      /\ NewMapXml(f.resp.body).err = NoErr
                      /\ ~Has(NewMapXml(f.resp.body).m, "error")
                /\ (f.pc = "unlock" /\ f.res.err # NoErr) => f.res.ty = "nil"
            /\ (Wrapper(f) /\ f.pc = "ret" /\ x[2] = 1) =>
                /\ r.err # NoErr => f.res = r
                /\ f.res.err # NoErr => f.res.ty = "nil"
                /\ (f.res.err = NoErr /\ f.fn = "Do") => r.ty = "map"
                /\ (f.res.err = NoErr /\ f.fn = "doReqCheckOK") =>
                      (r.ty = "mxj.Map" /\ Has(r.m, "response")
                         /\ Get(r.m, "response").kind = "str")

\* the transport failed once and Do is about to return that error
C11_Witness ==
    \E x \in Frames :
        LET f == FrameAt(x) IN
        /\ f.fn = "Do" /\ f.pc = "ret" /\ x[2] = 1
        /\ ret[x[1]].err = ErrTransport /\ f.res.err = ErrTransport
        /\ f.path = FeaturePath

(***************************************************************************)
(* C12: when a call of the request engine has returned, with a value or    *)
(* with any error, its goroutine no longer holds the client lock: the lock *)
(* is held only by a goroutine that has a call inside its critical         *)
(* section, so the next call can take it.                                  *)
(***************************************************************************)
C12_LockReleased ==
    /\ \A t \in Procs :
          mu = t => \E i \in 1..Len(stack[t]) : Critical(stack[t][i])
    /\ \A x \in Frames :
          (x[2] = 1 /\ Wrapper(FrameAt(x)) /\ FrameAt(x).pc \in {"conv", "ret"})
              => mu # x[1]

\* one goroutine's exchange has returned a decode error, and another
\* goroutine is now inside the critical section
C12_Witness ==
    \E x, y \in Frames :
        /\ x[1] # y[1]
        /\ Wrapper(FrameAt(x)) /\ FrameAt(x).pc = "conv" /\ x[2] = 1
        /\ ret[x[1]].err = ErrXMLSyntax
        /\ FrameAt(y).fn = "doReq" /\ FrameAt(y).pc = "build" /\ mu = y[1]

(***************************************************************************)
(* Answers the decoder has worked on.                                      *)
(***************************************************************************)
\* doReq has read and decoded the body of a 200 answer and is about to
\* return
Decoded(f) ==
    /\ f.fn = "doReq" /\ f.pc = "unlock"
    /\ f.resp.err = NoErr /\ f.resp.status = StatusOK /\ f.resp.body.kind = "xml"

\* the top-level elements of a document that are named n
Named(els, n) == {i \in 1..Len(els) : els[i].name = n}

\* decoded top levels, with one entry and with two
Roots ==
    {MEntry("error", {SEntry("code", Str("108002"))}),
     SEntry("error", Str("failed")),
     SEntry("response", Str("OK")),
     MEntry("response", {SEntry("Version", Str("1"))}),
     SEntry("extra", Str("x"))}
TopLevels ==
    {{e} : e \in Roots}
    \cup {{e1, e2} : e1 \in {r \in Roots : r.name = "error"},
                     e2 \in {r \in Roots : r.name # "error"}}

(***************************************************************************)
(* C13: device errors take precedence in decode.  Whenever the decoded     *)
(* top level holds an element named error, decodeXML returns an error and  *)
(* no payload, whether the first element or the whole tree was asked for   *)
(* and whatever else the top level holds: the error is looked for before   *)
(* the roots are counted.                                                  *)
(***************************************************************************)
C13_ErrorFirst ==
    /\ \A x \in Frames :
          LET f == FrameAt(x) IN
          (Decoded(f) /\ NewMapXml(f.resp.body).err = NoErr
              /\ Has(NewMapXml(f.resp.body).m, "error")) =>
                /\ f.res.err \in {ErrDevice, ErrInvalidError}
                /\ f.res.ty = "nil" /\ f.res.m = {} /\ ~f.res.b
    /\ \A m \in TopLevels, first \in BOOLEAN :
          Has(m, "error") =>
              /\ decodeMap(m, first).err \in {ErrDevice, ErrInvalidError}
              /\ decodeMap(m, first).ty = "nil"

\* Do asked for the first element of a document that opens with an error
\* envelope and goes on with a response element: the device error comes back
C13_Witness ==
    \E x \in Frames :
        LET f == FrameAt(x) IN
        /\ Decoded(f) /\ f.first /\ f.resp.body = DocErrFirst
        /\ f.res.err = ErrDevice /\ f.res.s = Str("108002")

(***************************************************************************)
(* C14: a document that has no top-level element, or two or more, and no   *)
(* error element fails to decode with ErrMissingRootElement; its first     *)
(* element is never returned silently.                                     *)
(***************************************************************************)
C14_SingleRootRequired ==
    \A x \in Frames :
        LET f == FrameAt(x) IN
        (Decoded(f) /\ Len(f.resp.body.els) # 1
            /\ Named(f.resp.body.els, "error") = {}) =>
              f.res.err = ErrMissingRootElement

(***************************************************************************)
(* What a wrapper sees of the answer.                                      *)
(***************************************************************************)
\* the call that called the running doReq of goroutine t
CalledBy(x, fn) ==
    x[2] = 1 /\ Len(stack[x[1]]) >= 2 /\ stack[x[1]][2].fn = fn

\* the document has the single top-level element e
SingleRoot(f, e) == f.resp.body.els = << e >>

\* wrapper fn is about to return, having classified the engine's result r
Classified(x, fn) ==
    x[2] = 1 /\ FrameAt(x).fn = fn /\ FrameAt(x).pc = "ret"

Bool(b) == Result(NoErr, "bool", {}, b, Empty, Empty)
Texts == {Str("OK"), Str("FAIL"), Str("ok"), Empty}

(***************************************************************************)
(* C15: boolean mode.  For a 200 answer whose body is a single response    *)
(* element with text s, doReqCheckOK returns (s = "OK", nil): true for the *)
(* literal OK alone, false for any other text, the empty one included,     *)
(* and never an error.                                                     *)
(***************************************************************************)
C15_BooleanMode ==
    \A x \in Frames, s \in Texts :
        LET f == FrameAt(x)
            whole == Result(NoErr, "mxj.Map", {SEntry("response", s)},
                            FALSE, Empty, Empty)
        IN  /\ (Decoded(f) /\ CalledBy(x, "doReqCheckOK")
                  /\ SingleRoot(f, SEntry("response", s))) => f.res = whole
            /\ (Classified(x, "doReqCheckOK") /\ ret[x[1]] = whole) =>
                  f.res = Bool(s = Str("OK"))

\* the device answered <response></response>: false, and no error
C15_Witness ==
    \E x \in Frames :
        /\ Classified(x, "doReqCheckOK")
        /\ ret[x[1]].m = {SEntry("response", Empty)}
        /\ FrameAt(x).res = Bool(FALSE)

\* the device answered <response>OK</response>: true
C15_WitnessOK ==
    \E x \in Frames :
        /\ Classified(x, "doReqCheckOK") /\ FrameAt(x).path = CodecPath
        /\ ret[x[1]].m = {SEntry("response", Str("OK"))}
        /\ FrameAt(x).res = Bool(TRUE)

(***************************************************************************)
(* C16: boolean mode fails with ErrInvalidResponse when the single root    *)
(* element is not named response, and with ErrInvalidValue when response   *)
(* is there but holds child elements instead of a string; the flag is      *)
(* false in both cases.                                                    *)
(***************************************************************************)
C16_BooleanModeErrors ==
    \A x \in Frames :
        LET f == FrameAt(x)
            r == ret[x[1]]
        IN  /\ (Decoded(f) /\ CalledBy(x, "doReqCheckOK")
                  /\ Len(f.resp.body.els) = 1
                  /\ Named(f.resp.body.els, "error") = {}) =>
                    f.res = Result(NoErr, "mxj.Map", {f.resp.body.els[1]},
                                   FALSE, Empty, Empty)
            /\ (Classified(x, "doReqCheckOK") /\ r.err = NoErr
                  /\ r.ty = "mxj.Map" /\ Cardinality(r.m) = 1) =>
                    /\ ~Has(r.m, "response") => f.res = Fail(ErrInvalidResponse)
                    /\ (Has(r.m, "response") /\ Get(r.m, "response").kind # "str")
                          => f.res = Fail(ErrInvalidValue)
                    /\ f.res.err # NoErr => ~f.res.b

\* the answer's root was <config>, and then one whose <response> has a
\* child element
C16_WitnessRoot ==
    \E x \in Frames :
        /\ Classified(x, "doReqCheckOK")
        /\ ret[x[1]].m = {SEntry("config", Str("OK"))}
        /\ FrameAt(x).res = Fail(ErrInvalidResponse)

C16_Witness ==
    \E x \in Frames :
        /\ Classified(x, "doReqCheckOK")
        /\ ret[x[1]].m = {MEntry("response", {SEntry("Version", Str("1"))})}
        /\ FrameAt(x).res = Fail(ErrInvalidValue)

(***************************************************************************)
(* C17: data mode and string-field mode.  Do returns the children of the   *)
(* single root element and fails with ErrInvalidXML when the root holds a  *)
(* scalar; doReqString fails with ErrInvalidResponse when the named child  *)
(* is absent, with ErrInvalidValue when it is not a string, and returns    *)
(* exactly the child's string otherwise.                                   *)
(***************************************************************************)
C17_DataAndStringMode ==
    \A x \in Frames :
        LET f == FrameAt(x)
            r == ret[x[1]]
            el == f.s1[1]
        IN  /\ (Decoded(f) /\ f.first /\ Len(f.resp.body.els) = 1
                  /\ Named(f.resp.body.els, "error") = {}) =>
                    f.res = IF f.resp.body.els[1].kind = "map"
                            THEN Result(NoErr, "map", f.resp.body.els[1].kids,
                                        FALSE, Empty, Empty)
                            ELSE Fail(ErrInvalidXML)
            /\ Classified(x, "Do") =>
                    f.res = (IF r.err = NoErr /\ r.ty # "map"
                             THEN Fail(ErrInvalidXML) ELSE r)
            /\ (Classified(x, "doReqString") /\ r.err # NoErr) => f.res = r
            /\ (Classified(x, "doReqString") /\ r.err = NoErr /\ r.ty = "map") =>
                    f.res = IF ~Has(r.m, el) THEN Fail(ErrInvalidResponse)
                            ELSE IF Get(r.m, el).kind # "str" THEN Fail(ErrInvalidValue)
                            ELSE Result(NoErr, "string", {}, FALSE,
                                        Get(r.m, el).s, Empty)

\* the four outcomes: the child's string; no such child; a child that is
\* a tree; a root that is a scalar
C17_Witness ==
    \E x \in Frames :
        /\ Classified(x, "doReqString")
        /\ ret[x[1]].m = {SEntry("Version", Str("1"))}
        /\ FrameAt(x).res.err = NoErr /\ FrameAt(x).res.s = Str("1")

C17_WitnessAbsent ==
    \E x \in Frames :
        /\ Classified(x, "doReqString")
        /\ ret[x[1]].m = {SEntry("State", Str("0"))}
        /\ FrameAt(x).res = Fail(ErrInvalidResponse)

C17_WitnessTree ==
    \E x \in Frames :
        /\ Classified(x, "doReqString")
        /\ ret[x[1]].err = NoErr /\ Has(ret[x[1]].m, "Version")
        /\ FrameAt(x).res = Fail(ErrInvalidValue)

C17_WitnessScalar ==
    \E x \in Frames :
        /\ Classified(x, "Do") /\ FrameAt(x).path = CodecPath
        /\ FrameAt(x).res = Fail(ErrInvalidXML)

(***************************************************************************)
(* C18: the message of a device error.  A message the envelope carries is  *)
(* used as it is; without one (absent or empty) the message is the table's *)
(* entry for the code, "invalid password" for 108002; for a code the table *)
(* does not know, or one that is not a number, it is the table's generic   *)
(* entry and not the empty string.                                         *)
(***************************************************************************)
GenericMessage == Str("system not available")

C18_MessageResolution ==
    \A x \in Frames :
        LET f == FrameAt(x)
            p == NewMapXml(f.resp.body)
        IN  (Decoded(f) /\ p.err = NoErr /\ Has(p.m, "error")
                /\ Get(p.m, "error").kind = "map") =>
              LET z == Get(p.m, "error").kids
                  code == StringOf(z, "code")
              IN  /\ f.res.err = ErrDevice
                  /\ StringOf(z, "message") # Empty =>
                        f.res.s2 = StringOf(z, "message")
                  /\ (StringOf(z, "message") = Empty /\ code = Str("108002")) =>
                        f.res.s2 = Str("invalid password")
                  /\ (StringOf(z, "message") = Empty /\ code = Str("125001")) =>
                        f.res.s2 = Str("invalid token")
                  /\ (StringOf(z, "message") = Empty
                        /\ code \notin {Str("-1"), Str("100003"), Str("108002"),
                                        Str("125001")}) =>
                        f.res.s2 = GenericMessage

(***************************************************************************)
(* C19: SmsSend with a message of 160 bytes or more returns                *)
(* (false, ErrMessageTooLong) in the very step that looks at the message:  *)
(* no call is made, so nothing reaches the transport, the lock is not      *)
(* taken and token and cookies stay as they are.  A message of 159 bytes   *)
(* or less passes the check and its request is handed to doReqCheckOK.     *)
(***************************************************************************)
\* goroutine t takes the step of SmsSend that checks the length
Checking(t) == At(t, "SmsSend", "check") /\ stack'[t] # stack[t]

C19_TooLongBeforeNetwork ==
    [][\A t \in Procs :
          Checking(t) =>
            IF Len(Top(t).s1) >= 160
            THEN /\ stack'[t] = << [Top(t) EXCEPT !.pc = "ret",
                                                  !.res = Fail(ErrMessageTooLong)] >>
                 /\ UNCHANGED << token, jar, mu, started, srvTok, superseded,
                                 installs >>
            ELSE /\ Len(stack'[t]) = 2
                 /\ stack'[t][1].fn = "doReqCheckOK"
                 /\ stack'[t][1].path = SmsSendPath
                 /\ stack'[t][1].v.kind = "bytes"]_vars

\* a message of exactly 160 bytes has been rejected
C19_Witness ==
    \E x \in Frames :
        LET f == FrameAt(x) IN
        /\ f.fn = "SmsSend" /\ f.pc = "ret" /\ Len(f.s1) = 160
        /\ f.res = Fail(ErrMessageTooLong) /\ f.sent = 0

\* a message of 159 bytes is on the wire
C19_WitnessSent ==
    \E x \in Frames :
        LET f == FrameAt(x) IN
        /\ InFlight(f) /\ f.path = SmsSendPath
        /\ \E y \in Frames : FrameAt(y).fn = "SmsSend" /\ Len(FrameAt(y).s1) = 159

(***************************************************************************)
(* Reading a request payload back, as the device's parser does: the        *)
(* header, one request element, and in it a flat run of elements that hold *)
(* text.  The result is the list name, value, name, value, ... in the      *)
(* order of the document.                                                  *)
(***************************************************************************)
Unreadable == [ok |-> FALSE, vals |-> << >>]

\* the place of the first piece of markup in s, Len(s) + 1 without one
Upto(s) ==
    LET at == {i \in 1..Len(s) : s[i] \in Markup}
    IN  IF at = {} THEN Len(s) + 1 ELSE CHOOSE i \in at : \A j \in at : i <= j

From(s, i) == SubSeq(s, i, Len(s))

RECURSIVE ReadPairs(_)
ReadPairs(s) ==
    IF s = << >> THEN Unreadable
    ELSE IF s[1] \in White THEN ReadPairs(Tail(s))
    ELSE IF s[1] = "</request>"
    THEN [ok |-> \A i \in 2..Len(s) : s[i] \in White, vals |-> << >>]
    ELSE IF s[1] # "<" THEN Unreadable
    ELSE LET a == Tail(s)
             n == Upto(a)
             b == From(a, n + 1)
             v == Upto(b)
             c == From(b, v + 1)
             m == Upto(c)
         IN  IF \/ n = 1 \/ n > Len(a) \/ a[n] # ">"
                \/ v > Len(b) \/ b[v] # "</"
                \/ m > Len(c) \/ c[m] # ">"
                \/ SubSeq(c, 1, m - 1) # SubSeq(a, 1, n - 1)
             THEN Unreadable
             ELSE LET rest == ReadPairs(From(c, m + 1))
                  IN  [ok |-> rest.ok,
                       vals |-> << SubSeq(a, 1, n - 1), SubSeq(b, 1, v - 1) >>
                                \o rest.vals]

ReadBack(payload) ==
    IF Len(payload) >= 3 /\ payload[1] = XMLHeader /\ payload[2] = "\n"
          /\ payload[3] = "<request>"
    THEN ReadPairs(From(payload, 4))
    ELSE Unreadable

\* the request of a caller who encoded vals is on the wire
OnWire(f, vals) ==
    /\ InFlight(f) /\ f.path = RequestPath
    /\ f.v = Bytes(SimpleRequestXML(vals))

\* no name is empty and no name or value holds markup
Plain(vals) ==
    \A i \in 1..Len(vals) :
        /\ \A j \in 1..Len(vals[i]) : vals[i][j] \notin Markup
        /\ i % 2 = 1 => vals[i] # Empty

(***************************************************************************)
(* C20, as claimed: for every even-length list of strings, names repeated  *)
(* or not, the payload of SimpleRequestXML is the header and one request   *)
(* element, and the pairs read back from it are the caller's list, in the  *)
(* caller's order.                                                         *)
(***************************************************************************)
C20_RoundTrip ==
    \A x \in Frames, vals \in FieldLists :
        OnWire(FrameAt(x), vals) =>
            ReadBack(FrameAt(x).req.payload) = [ok |-> TRUE, vals |-> vals]

(***************************************************************************)
(* C20, amended: the same for every even-length list of strings whose      *)
(* names are not empty and whose names and values hold no markup; the      *)
(* strings are written as they are, without escaping.                      *)
(***************************************************************************)
C20_RoundTripPlain ==
    \A x \in Frames, vals \in FieldLists :
        (OnWire(FrameAt(x), vals) /\ Plain(vals)) =>
            ReadBack(FrameAt(x).req.payload) = [ok |-> TRUE, vals |-> vals]

\* a request with the name Phone twice is on the wire and reads back as
\* written
C20_Witness ==
    \E x \in Frames :
        LET vals == << Str("Phone"), Str("2"), Str("Phone"), Str("1") >> IN
        /\ OnWire(FrameAt(x), vals)
        /\ ReadBack(FrameAt(x).req.payload).vals = vals

(***************************************************************************)
(* The session handshake.                                                  *)
(***************************************************************************)
\* the field n of a decoded element is there and is character data
IsString(r, n) == Has(r.m, n) /\ Get(r.m, n).kind = "str"

\* a call of SetSessionAndTokenID that follows NewSessionAndTokenID
Installing(x) ==
    /\ FrameAt(x).fn = "SetSessionAndTokenID"
    /\ x[2] = 1
    /\ FrameAt(x).pc = "lock"
    /\ \/ CalledBy(x, "NewClient") \/ CalledBy(x, "start") \/ CalledBy(x, "run")

\* C21: NewSessionAndTokenID issues one request without a body to the
\* session-info endpoint; when SesInfo and TokInfo are both strings it
\* returns SesInfo without its SessionID= prefix, and TokInfo; when one of
\* them is absent or not a string it fails with ErrInvalidResponse, and the
\* failing call installs nothing: its conversion leaves token and jar as
\* doReq left them, and no caller goes on to SetSessionAndTokenID.
C21_SessionInfo ==
    /\ [](\A x \in Frames :
            LET f == FrameAt(x)
                r == ret[x[1]]
            IN  /\ (f.fn = "doReq" /\ CalledBy(x, "NewSessionAndTokenID"))
                      => /\ f.path = SesTokInfoPath /\ f.v = NilBody
                         /\ f.sent <= 1
                         /\ Built(f) => f.req.method = "GET" /\ f.req.payload = Empty
                /\ (f.fn = "NewSessionAndTokenID" /\ f.pc = "ret" /\ x[2] = 1
                       /\ r.err = NoErr /\ r.ty = "map")
                      => IF IsString(r, "SesInfo") /\ IsString(r, "TokInfo")
                         THEN /\ f.res.err = NoErr
                              /\ f.res.s = TrimPrefix(Get(r.m, "SesInfo").s, SessionPrefix)
                              /\ f.res.s2 = Get(r.m, "TokInfo").s
                         ELSE f.res = Fail(ErrInvalidResponse)
                /\ Installing(x)
                      => /\ r.err = NoErr /\ r.ty = "pair"
                         /\ f.s1 = r.s /\ f.s2 = r.s2)
    /\ [][\A t \in Procs :
             (At(t, "NewSessionAndTokenID", "conv") /\ stack'[t] # stack[t])
                => token' = token /\ jar' = jar]_vars

\* a session-info answer without TokInfo has been refused
C21_Witness ==
    \E t \in Procs :
        /\ At(t, "NewSessionAndTokenID", "ret")
        /\ ret[t].err = NoErr /\ ret[t].ty = "map"
        /\ IsString(ret[t], "SesInfo") /\ ~Has(ret[t].m, "TokInfo")
        /\ Top(t).res = Fail(ErrInvalidResponse)

\* a session-info answer whose SesInfo is not a string has been refused
C21_WitnessTree ==
    \E t \in Procs :
        /\ At(t, "NewSessionAndTokenID", "ret")
        /\ ret[t].err = NoErr /\ ret[t].ty = "map"
        /\ Has(ret[t].m, "SesInfo") /\ ~IsString(ret[t], "SesInfo")
        /\ Top(t).res = Fail(ErrInvalidResponse)

\* both strings: the pair is on its way to SetSessionAndTokenID
C21_WitnessPair ==
    \E x \in Frames :
        /\ Installing(x)
        /\ FrameAt(x).s1 = Ses(1) /\ FrameAt(x).s2 = BodyTok(1)

\* C22: when SetSessionAndTokenID(s, t) is about to return, the stored
\* token is t and the jar is a new jar that holds the SessionID cookie with
\* value s and no other cookie; the jar and the token are both written
\* while the call holds the client's lock.
C22_InstallReplaces ==
    \A x \in Frames :
        LET f == FrameAt(x) IN
        f.fn = "SetSessionAndTokenID" =>
            /\ f.pc \in {"jar", "token", "unlock"} => mu = x[1]
            /\ f.pc \in {"token", "unlock"} =>
                  /\ ~jar.nil
                  /\ jar.cookies = {Cookie("SessionID", f.s1)}
            /\ f.pc = "unlock" => token = f.s2

\* an install has thrown away a session cookie and a cookie of another
\* name
C22_Witness ==
    \E t \in Procs :
        /\ At(t, "SetSessionAndTokenID", "unlock")
        /\ \E c \in dropped : c.name = "SessionID" /\ c.value # Top(t).s1
        /\ \E c \in dropped : c.name # "SessionID"

\* C23: a client configured without an identifier has neither identifier
\* nor password digest, and its login is skipped, not failed: the call
\* returns (false, nil) at once, no login request is ever built, and token,
\* jar and the device are left as they were.
C23_LoginSkipped ==
    /\ [](authID = Empty =>
            /\ authPW = Empty
            /\ \A x \in Frames :
                  FrameAt(x).fn # "doReqLogin" /\ FrameAt(x).path # LoginPath)
    /\ [][\A t \in Procs :
             (At(t, "login", "check") /\ authID = Empty /\ stack'[t] # stack[t])
                => /\ stack'[t] = Tail(stack[t])
                   /\ ret'[t] = Bool(FALSE)
                   /\ token' = token /\ jar' = jar /\ srvTok' = srvTok]_vars

\* NewClient has the answer of a skipped login: (false, nil)
C23_Witness ==
    /\ authID = Empty
    /\ \E t \in Procs :
          /\ At(t, "NewClient", "done")
          /\ ret[t] = Bool(FALSE)
          /\ installs = 1

\* the login answer f holds is a 200 whose body reads <response>OK</response>
LoginOK(f) ==
    /\ f.resp # NoResp /\ ~BadStatus(f.resp.status)
    /\ f.resp.body = DocOK

\* the session id doReqLogin takes from Set-Cookie
LoginSession(resp) == TrimPrefix(SplitFirst(resp.setCookie, ";"), SessionPrefix)

\* C24: the login exchange fails with ErrInvalidResponse when the boolean
\* result is not OK, and also when the OK answer lacks the login token
\* header or the session id of Set-Cookie; nothing is installed then, so
\* no login installs an empty token or an empty session id.
C24_LoginValidated ==
    \A x \in Frames :
        LET f == FrameAt(x) IN
        /\ (f.fn = "doReqLogin" /\ f.pc = "unlock" /\ f.resp # NoResp
               /\ ~BadStatus(f.resp.status))
              => /\ f.resp.body \in {DocFail, DocLower, DocEmptyText}
                     => f.res = Fail(ErrInvalidResponse)
                 /\ (LoginOK(f) /\ (f.resp.tok1 = Empty
                                      \/ LoginSession(f.resp) = Empty))
                     => f.res = Fail(ErrInvalidResponse)
        /\ (f.fn = "SetSessionAndTokenID" /\ CalledBy(x, "login"))
              => f.s1 # Empty /\ f.s2 # Empty

\* a successful login answer is known and its pair is not yet completely
\* installed: login is about to call SetSessionAndTokenID, or that call
\* has not yet stored the token
LoginInstalling(x) ==
    LET f == FrameAt(x) IN
    \/ /\ f.fn = "login" /\ f.pc = "install" /\ x[2] = 1
       /\ ret[x[1]].err = NoErr
    \/ /\ f.fn = "SetSessionAndTokenID" /\ CalledBy(x, "login")
       /\ f.pc \in {"lock", "jar", "token"}

\* C25: the session id and the token of a successful login are installed
\* atomically: while the pair is being installed (the answer is known and
\* the token is not yet stored) no request of the client is being built
\* or is on the wire, and jar and token are written under the lock.
C25_LoginInstallAtomic ==
    \A x \in Frames :
        /\ LoginInstalling(x) =>
              \A y \in Frames :
                  Exchange(FrameAt(y)) =>
                      FrameAt(y).pc \notin {"build", "send", "recv"}
        /\ (FrameAt(x).fn = "SetSessionAndTokenID" /\ CalledBy(x, "login")
               /\ FrameAt(x).pc \in {"jar", "token", "unlock"})
              => mu = x[1]

\* the jar holds the session of the login answer, the token is still the
\* one of the bootstrap
C25_Witness ==
    \E x \in Frames :
        LET f == FrameAt(x) IN
        /\ f.fn = "SetSessionAndTokenID" /\ CalledBy(x, "login")
        /\ f.pc = "token"
        /\ f.s1 # Empty /\ f.s2 # Empty
        /\ jar.cookies = {Cookie("SessionID", f.s1)}
        /\ token # f.s2 /\ token # Empty

\* the digest of the eager login as a function of its three inputs
Digest(id, pw, tk) == hashPw(id \o hashPw(pw) \o tk)

\* the fields a login request carries, read back from its payload
LoginSent(f) == ReadBack(f.v.data)

DigestMark == "b64(hex(sha256("

\* the body of the call f was made from the stored password digest
UsesDigest(f) ==
    /\ f.v.kind \in {"bytes", "XMLData"}
    /\ \E i \in 1..Len(f.v.data) : f.v.data[i] = DigestMark

\* no field of the client holds the password as the caller gave it
NoRawPassword ==
    /\ authID # RawPassword /\ token # RawPassword
    /\ authPW # RawPassword
    /\ authPW \in {Empty, authID \o Str(DigestMark) \o RawPassword \o Str(")))")}

\* C27, as claimed: after Auth no field of the client holds the raw
\* password, and the stored password digest is read by the login exchange
\* only: every call whose body was made from it goes to the login endpoint.
C27_DigestReadByLoginOnly ==
    /\ NoRawPassword
    /\ \A x \in Frames : UsesDigest(FrameAt(x)) => FrameAt(x).path = LoginPath

\* C27, amended: no field of the client holds the raw password, and the
\* stored password digest is read by the login exchange and by
\* ChangePassword, which proves the current password with it, and by no
\* other operation.
C27_DigestReaders ==
    /\ NoRawPassword
    /\ \A x \in Frames :
          UsesDigest(FrameAt(x)) =>
              \/ FrameAt(x).path = LoginPath
              \/ /\ FrameAt(x).path = PasswordPath
                 /\ \E y \in Frames : FrameAt(y).fn = "ChangePassword" /\ y[1] = x[1]

\* ChangePassword's request, made from the stored digest, is on the wire
C27_Witness ==
    \E x \in Frames :
        /\ InFlight(FrameAt(x)) /\ FrameAt(x).path = PasswordPath
        /\ UsesDigest(FrameAt(x))

\* C28: two Client instances are independent, however their options built
\* them: a call on the second Client changes neither the token nor the
\* cookies the first one sends, and a call on the first changes neither
\* the token nor the cookies the second one sends.
C28_ClientsIndependent ==
    [][/\ peer' # peer => (token' = token /\ jar' = jar)
       /\ peer' = peer => PeerJar' = PeerJar]_vars

\* a step of the automatic start: the session-info or the login exchange
\* made by NewClient or by start
AutoStart(x) ==
    /\ FrameAt(x).fn \in {"NewSessionAndTokenID", "login"}
    /\ CalledBy(x, "NewClient") \/ CalledBy(x, "start")

\* C29: with automatic start disabled nothing is exchanged on the client's
\* own account: the eager NewClient makes no request and returns a client
\* with an empty token and no jar, and the lazy start makes no session-info
\* and no login exchange when a call is invoked.
C29_NoStartHonoured ==
    nostart =>
        /\ \A x \in Frames : ~AutoStart(x)
        /\ (rev = "eager" /\ calls = 0) =>
              token = Empty /\ jar = NilJar /\ srvTok = 0

\* the request of the doReq call f left and the transport gave no answer
NoAnswer(f) == f.fn = "doReq" /\ f.sent = 1 /\ f.resp = NoResp

\* goroutine t takes a step, and the doReq call at place i of its stack has
\* no answer before the step and none after it (or has returned)
StepWithoutAnswer(t, i) ==
    LET f == stack[t][i]
        d == Len(stack[t]) - i
    IN  /\ f.fn = "doReq" /\ f.resp = NoResp
        /\ stack'[t] # stack[t]
        /\ \/ Len(stack'[t]) <= d
           \/ stack'[t][Len(stack'[t]) - d].resp = NoResp

\* C30: a failure of the transport is returned by doReq as it is, and the
\* failed call leaves token and jar as they were before it: no step of a
\* call that has no answer changes them, and a call whose request got no
\* answer returns the transport's error.
C30_TransportFailure ==
    /\ [](\A x \in Frames :
            (NoAnswer(FrameAt(x)) /\ FrameAt(x).pc = "unlock")
                => /\ FrameAt(x).res.err = ErrTransport
                   /\ FrameAt(x).res.ty = "nil")
    /\ [][\A t \in Procs :
             /\ \A i \in 1..Len(stack[t]) :
                   StepWithoutAnswer(t, i) => token' = token /\ jar' = jar
             /\ (At(t, "doReq", "unlock") /\ NoAnswer(Top(t))
                    /\ stack'[t] # stack[t] /\ Len(stack[t]) > 1)
                   => ret'[t].err = ErrTransport /\ mu' = 0]_vars

\* with a session installed, a call fails in the transport
C30_Witness ==
    \E t \in Procs :
        /\ At(t, "doReq", "unlock") /\ NoAnswer(Top(t))
        /\ Top(t).res.err = ErrTransport
        /\ token # Empty /\ ~jar.nil /\ installs >= 1

(***************************************************************************)
(* The encoders and a list of odd length.                                  *)
(***************************************************************************)
\* the calls of the encoders that were given an odd number of strings
OddCalls ==
    {x \in Frames : /\ FrameAt(x).fn \in {"xmlPairs", "SimpleRequestXML"}
                    /\ Odd(FrameAt(x).s1)}

\* the call panicked with the pairs-only message and left nothing behind
FailedFast(f) ==
    /\ f.pc = PanicPairsOnly
    /\ f.v.data = Empty
    /\ \A y \in Frames : ~Exchange(FrameAt(y))

OddListFailsFastWhereChecked ==
    /\ \A x \in OddCalls :
          LET f == FrameAt(x) IN
          IF f.fn = "SimpleRequestXML" \/ f.path = "part_007"
          THEN FailedFast(f)
          ELSE f.pc = PanicIndexOutOfRange /\ f.v.data = Empty
    /\ \A x \in Frames :
          LET f == FrameAt(x) IN
          (f.fn = "SimpleRequestXML" /\ ~Odd(f.s1))
              => f.pc = NoPanic /\ f.v = Bytes(SimpleRequestXML(f.s1))

\* SimpleRequestXML of util.go was given three strings
C31_Witness ==
    \E x \in OddCalls :
        /\ FrameAt(x).fn = "SimpleRequestXML" /\ FrameAt(x).path = "util.go"
        /\ Len(FrameAt(x).s1) = 3 /\ FrameAt(x).pc = PanicPairsOnly

\* xmlPairs of part_007 was given three strings
C31_WitnessPairs ==
    \E x \in OddCalls :
        /\ FrameAt(x).fn = "xmlPairs" /\ FrameAt(x).path = "part_007"
        /\ Len(FrameAt(x).s1) = 3 /\ FrameAt(x).pc = PanicPairsOnly

\* C32: the token a successful login leaves in the client is the value of
\* the login token header of the login answer, whatever standard token
\* header that answer carries: doReqLogin returns the login header's value,
\* login hands it to SetSessionAndTokenID, which stores it; no step of
\* doReqLogin writes the stored token.
C32_LoginTokenHeader ==
    /\ [](\A x \in Frames :
            LET f == FrameAt(x) IN
            /\ (f.fn = "doReqLogin" /\ f.pc = "unlock" /\ f.res.err = NoErr)
                  => f.res.s2 = f.resp.tok1
            /\ (f.fn = "SetSessionAndTokenID" /\ CalledBy(x, "login"))
                  => /\ (f.pc = "lock" /\ x[2] = 1) => f.s2 = ret[x[1]].s2
                     /\ f.pc = "unlock" => token = f.s2)
    /\ [][\A t \in Procs :
             (Running(t, "doReqLogin") /\ stack'[t] # stack[t])
                => token' = token]_vars

\* a login answer with both headers has been accepted: the login header's
\* value is returned, the stored token is not the standard header's
C32_Witness ==
    \E t \in Procs :
        /\ At(t, "doReqLogin", "unlock") /\ Top(t).res.err = NoErr
        /\ Top(t).resp.tok # Empty /\ Top(t).resp.tok1 # Empty
        /\ Top(t).resp.tok # Top(t).resp.tok1
        /\ Top(t).res.s2 = Top(t).resp.tok1
        /\ token # Top(t).resp.tok

\* the login header's value has been stored
C32_WitnessStored ==
    \E x \in Frames :
        /\ FrameAt(x).fn = "SetSessionAndTokenID" /\ CalledBy(x, "login")
        /\ FrameAt(x).pc = "unlock"
        /\ \E n \in 1..MaxTok : token = LoginTok(n)

\* the request of a ChangePassword call, built
PasswordRequest(f) == Built(f) /\ f.path = PasswordPath /\ f.v.kind = "bytes"

\* C33: whatever other calls run on the client, the token folded into the
\* CurrentPassword digest of a ChangePassword request is the token the
\* request carries in its token header.
C33_DigestTokenIsHeaderToken ==
    \A x \in Frames :
        LET f == FrameAt(x) IN
        PasswordRequest(f) =>
            /\ f.req.hasTok
            /\ ReadBack(f.v.data).vals[4] = Digest(authID, authPW, f.req.tok)

(***************************************************************************)
(* C34: a response whose status is not exactly 200, another 2xx status     *)
(* included, is rejected with ErrBadStatusCode before its headers are      *)
(* observed: the exchange goes from the status test straight to its        *)
(* return, and neither that step nor the return changes the stored token,  *)
(* whether or not the response carries a token header.                     *)
(***************************************************************************)
NotOK(r) == r.err = NoErr /\ r.status # 0 /\ r.status # StatusOK

RejectedUnobserved(t) ==
    LET f == Top(t) IN
    (/\ stack[t] # << >> /\ Exchange(f) /\ NotOK(f.resp)
     /\ f.pc \in {"status", "unlock"}
     /\ stack'[t] # stack[t]) =>
        /\ token' = token
        /\ f.pc = "status" =>
              stack'[t] = [stack[t] EXCEPT ![1].pc = "unlock",
                                           ![1].res = Fail(ErrBadStatusCode)]

C34_NotOKRejectedBeforeObserve ==
    /\ [](\A x \in Frames :
            LET f == FrameAt(x) IN
            (Exchange(f) /\ NotOK(f.resp) /\ f.pc # "status") =>
                (f.pc = "unlock" /\ f.res = Fail(ErrBadStatusCode)))
    /\ [][\A t \in Procs : RejectedUnobserved(t)]_vars

\* a 204 that carries a token header other than the stored token has been
\* rejected, and doReq is about to return the error
C34_Witness ==
    \E x \in Frames :
        LET f == FrameAt(x) IN
        /\ f.fn = "doReq" /\ f.pc = "unlock" /\ f.resp.status = 204
        /\ f.resp.tok # Empty /\ f.resp.tok # token
        /\ f.res = Fail(ErrBadStatusCode)

(***************************************************************************)
(* C35: eager construction.  NewClient without NoSessionStart runs the     *)
(* handshake in a fixed order: the session-info request, the install of    *)
(* its session id and token, then, only with an identifier, exactly one    *)
(* login request whose digest and token header both use the token the      *)
(* bootstrap installed, then the install of the login result.  When a step *)
(* fails NewClient returns the error and no client.                        *)
(***************************************************************************)
Constructing(t) ==
    stack[t] # << >> /\ stack[t][Len(stack[t])].fn = "NewClient"

\* the call NewClient is waiting for, when it waits for one
Awaited(t, fn) ==
    Len(stack[t]) >= 2 => stack[t][Len(stack[t]) - 1].fn = fn

HandshakeOrder(t) ==
    LET c == stack[t][Len(stack[t])]
        n == Len(stack[t])
    IN  /\ c.pc = "opts" => n = 1 /\ installs = 0 /\ token = Empty /\ jar = NilJar
        /\ c.pc = "set" => installs = 0 /\ Awaited(t, "NewSessionAndTokenID")
        /\ c.pc = "login" =>
              /\ Awaited(t, "SetSessionAndTokenID")
              /\ installs = IF n >= 2 THEN 0 ELSE 1
        /\ c.pc = "done" =>
              /\ Awaited(t, "login")
              /\ installs \in {1, 2}
              /\ installs = 2 => authID # Empty
        /\ \A i \in 1..n :
              LET f == stack[t][i] IN
              /\ f.path = SesTokInfoPath => c.pc = "set" /\ f.sent <= 1
              /\ f.path = LoginPath =>
                    /\ c.pc = "done" /\ authID # Empty /\ installs = 1
                    /\ f.fn = "doReqLogin" /\ f.sent <= 1
                    /\ LoginSent(f).vals[4] = Digest(authID, authPW, token)
                    /\ Built(f) => f.req.tok = token
                    /\ (f.pc = "unlock" /\ f.res.err = NoErr) => f.sent = 1
              /\ f.fn = "SetSessionAndTokenID" =>
                    /\ (i = 1 /\ f.pc = "lock") =>
                          f.s1 = ret[t].s /\ f.s2 = ret[t].s2
                    /\ f.pc = "unlock" => token = f.s2
                    /\ installs = IF c.pc = "login" THEN 0 ELSE 1

\* while the client is constructed the token is written by the observation
\* of the session-info answer and by the two installs, by nothing else
HandshakeStores(t) ==
    (Constructing(t) /\ token' # token) =>
        \/ At(t, "doReq", "observe") /\ Top(t).path = SesTokInfoPath
        \/ At(t, "SetSessionAndTokenID", "token") /\ token' = Top(t).s2

\* NewClient returns: the error of the failed step and no client, or the
\* client after the last step of the handshake
HandshakeEnds(t) ==
    (Constructing(t) /\ Len(stack[t]) = 1 /\ stack'[t] # stack[t]) =>
        LET c == Top(t) IN
        /\ (c.pc \in {"set", "done"} /\ ret[t].err # NoErr) =>
              built' = "failed" /\ stack'[t] = << >>
        /\ built' = "yes" =>
              \/ nostart /\ c.pc = "opts"
              \/ /\ c.pc = "done" /\ ret[t].err = NoErr
                 /\ installs = IF authID = Empty THEN 1 ELSE 2

C35_EagerHandshake ==
    /\ [](/\ \A t \in Procs : Constructing(t) => HandshakeOrder(t)
          /\ built # "yes" =>
                \A t \in Procs : stack[t] = << >> \/ Constructing(t))
    /\ [][\A t \in Procs : HandshakeStores(t) /\ HandshakeEnds(t)]_vars

\* NewClient has returned the client after both installs, and no call has
\* been made on it yet
C35_Witness ==
    /\ rev = "eager" /\ built = "yes" /\ ~nostart /\ authID # Empty
    /\ installs = 2 /\ calls = 0
    /\ \A t \in Procs : stack[t] = << >>

\* the login request of the construction is on the wire
C35_WitnessLogin ==
    \E t \in Procs :
        /\ Constructing(t) /\ At(t, "doReqLogin", "recv")
        /\ Top(t).req.tok = token /\ token = BodyTok(1)

\* the login of the construction has failed: no client
C35_WitnessFailed ==
    /\ built = "failed" /\ installs = 1 /\ authID # Empty

(***************************************************************************)
(* C36: when the lazy bootstrap or its login step fails inside start, the  *)
(* invoke that triggered it returns that error without dispatching its own *)
(* request, started stays false, and the next invoke attempts the          *)
(* bootstrap again; started becomes true only after the install and the    *)
(* login step have both succeeded.                                         *)
(***************************************************************************)
\* start of goroutine t has begun the bootstrap and has not returned
Bootstrapping(t) ==
    \E i \in 1..Len(stack[t]) :
        stack[t][i].fn = "start" /\ stack[t][i].pc \in {"set", "login", "done"}

\* the step of start that ends a bootstrap: started is set on success only
BootstrapEnds(t) ==
    (At(t, "start", "done") /\ stack'[t] # stack[t]) =>
        /\ started' = (ret[t].err = NoErr)
        /\ ret[t].err # NoErr => stack'[t][1].res = Err(ret[t])

\* an invoke whose start returned an error returns it, nothing dispatched
FailedStartReturns(t) ==
    (At(t, "doReq", "started") /\ ret[t].err # NoErr /\ stack'[t] # stack[t]) =>
        /\ Top(t).sent = 0
        /\ stack'[t] = Tail(stack[t])
        /\ ret'[t] = Err(ret[t])

\* a step of whatever call goroutine t is running
Proceeds(t) ==
    \/ ProceedLazy(t)
    \/ SetSessionAndTokenID(t)
    \/ login(t)
    \/ doReqCheckOK(t)

WireFields(payload) ==
    IF payload # << >> /\ payload[1] = "<request>"
    THEN ReadPairs(From(payload, 2))
    ELSE ReadBack(payload)

\* the names of the list vals, in order
NamesOf(vals) == [k \in 1..(Len(vals) \div 2) |-> vals[2 * k - 1]]

LoginNames == << Str("Username"), Str("Password"), Str("password_type") >>

C37_WireOrder ==
    \A x \in Frames :
        LET f == FrameAt(x) IN
        (f.pc = "wire" /\ Len(f.s1) > 2) =>
            /\ f.v.kind = "bytes"
            /\ Plain(f.s1) => WireFields(f.req.payload) = [ok |-> TRUE, vals |-> f.s1]
            /\ f.path = LoginPath =>
                  NamesOf(WireFields(f.req.payload).vals) = LoginNames

\* the order alone: the fields of a built write request with more than one
\* field are on the wire as written, whatever encoder made the body
WireOrderAsWritten ==
    \A x \in Frames :
        LET f == FrameAt(x) IN
        (f.pc = "wire" /\ Len(f.s1) > 2 /\ Plain(f.s1)) =>
            WireFields(f.req.payload) = [ok |-> TRUE, vals |-> f.s1]

(***************************************************************************)
(* C38: with -nowait the ussd tool exits as soon as the USSD code is sent: *)
(* once UssdCode has succeeded it takes no further sleep and issues no     *)
(* UssdContent request.                                                    *)
(***************************************************************************)
\* the tool was given -nowait and its code has been sent and accepted
NoWaitSent(t) ==
    /\ stack[t] # << >>
    /\ LET f == stack[t][Len(stack[t])] IN
       /\ f.fn = "main" /\ Given(f, "-nowait")
       /\ f.pc \in {"wait", "sleep", "content", "done"}
       /\ ~Given(f, "-r") /\ ~Given(f, "-check")

C38_NoWaitExits ==
    /\ [](\A t \in Procs :
            NoWaitSent(t) =>
                /\ stack[t][Len(stack[t])].pc \notin {"content", "done"}
                /\ \A i \in 1..Len(stack[t]) : stack[t][i].path # UssdGetPath)
    /\ [][\A t \in Procs :
             (NoWaitSent(t) /\ stack'[t] # stack[t]) =>
                 (stack'[t] = << >> \/ stack'[t][1].pc = "sleep")]_vars

\* with -nowait, the request for the content is on the wire
NoWaitContentRequested ==
    \E t \in Procs :
        /\ NoWaitSent(t) /\ At(t, "doReq", "recv")
        /\ Top(t).path = UssdGetPath
====
